---- MODULE Spec2Model ----
(***************************************************************************)
(* Smart Panel: the polled input engine (InputHandler driven by            *)
(* SmartPanel.run), the persisted configuration, and the commissioning     *)
(* codec of MatterServer.                                                  *)
(*                                                                         *)
(* Time is in milliseconds (time.time() * 1000).  None is NONE; Python     *)
(* truthiness of a timestamp is Truthy.                                    *)
(***************************************************************************)
EXTENDS Integers, Sequences, FiniteSets, TLC

VARIABLES
    now,                   \* wall clock, ms
    pc,                    \* position of the main thread in SmartPanel.run
    clear_idx,             \* index of the clear loop of get_button_states
    restarts,              \* number of os.execl restarts so far
    \* ---- encoder push button
    enc_is_pressed,        \* enc_button.is_pressed (hardware level)
    enc_last_state,        \* InputHandler.enc_last_state
    enc_press_start,       \* InputHandler.enc_press_start
    enc_button_state,      \* run(): enc_button_state of the running tick
    cyc,                   \* history: the current physical press-release cycle
    prev,                  \* history: the last closed physical cycle
    sess,                  \* history: the classifier's current press session
    \* ---- emergency combo
    btn_is_pressed,        \* b.is_pressed for every button
    emergency_reset_start, \* InputHandler.emergency_reset_start
    reset_status,          \* run(): reset_status of the last check
    reset_progress,        \* run(): reset_progress of the last check
    hold,                  \* history: the current arming of the monitor
    \* ---- latched button edges
    button_states,         \* InputHandler.button_states (shared with callbacks)
    states,                \* get_button_states: the copy it returns
    edges,                 \* history: edges per pin
    \* ---- encoder counter
    enc_steps,             \* encoder.steps (shared with the gpiozero thread)
    enc_delta,             \* get_encoder_delta: delta
    produced,              \* history: net steps the encoder produced
    returned,              \* history: sum of the deltas returned
    step_events,           \* history: number of encoder steps so far
    \* ---- configuration
    default_ba,            \* DEFAULT_CONFIG['button_assignments'] (module object)
    config,                \* SmartPanel.config
    aliased,               \* config['button_assignments'] is default_ba itself
    file,                  \* contents of CONFIG_FILE
    reset_done,            \* history: _emergency_reset ran reset_config
    \* ---- commissioning codec
    setup_pin,             \* MatterServer.setup_pin
    discriminator,         \* MatterServer.discriminator
    manual_code_cache,     \* MatterServer._manual_code_cache
    manual_result,         \* result of the last get_manual_pairing_code call
    vendor_id,             \* MatterServer.vendor_id
    product_id,            \* MatterServer.product_id
    qr_payload_cache,      \* MatterServer._qr_payload_cache
    qr_result,             \* result of the last get_pairing_qr_payload call
    \* ---- wiring and hardware faults
    buttons,               \* pin numbers of InputHandler.buttons
    emergency_reset_buttons, \* InputHandler.emergency_reset_buttons
    hw_failed,             \* the channel whose GPIO device cannot be constructed
    fault,                 \* the channel whose level read raises
    skipped,               \* history: channels left unread by a tick that raised
    \* ---- components run on their own
    vh_code,               \* _calculate_verhoeff: a base code
    vh_pos,                \* position of the digit that is replaced
    vh_digit,              \* the digit put there
    vh_result,             \* check digits of the base code and of the changed one
    menu_len,              \* len(Menu.items)
    selected_index,        \* Menu.selected_index
    scroll_offset,         \* Menu.scroll_offset
    menu_last,             \* history: the last Menu call
    \* ---- encoder velocity
    enc_velocity,          \* InputHandler.enc_velocity, steps per second
    last_enc_time,         \* InputHandler.last_enc_time
    vel_last,              \* history: the last get_encoder_delta call
    \* ---- input that arrives while the combo is armed
    arm,                   \* history: flags and steps pending since the arming
    \* ---- screen navigation
    current_screen,        \* SmartPanel.current_screen
    screen_stack,          \* SmartPanel.screen_stack
    main_menu,             \* selected_index and scroll_offset of SmartPanel.main_menu
    screens_made,          \* number of screen objects constructed so far
    nav_last,              \* history: the last navigation step of run()
    \* ---- the CircuitMatter device
    device,                \* MatterButtonDevice: _qr_cache, _manual_cache, last results
    \* ---- MatterServer lifecycle
    server,                \* MatterServer: enabled, running, server_thread, and its threads
    \* ---- ButtonManager
    bm_last                \* history: the last ButtonManager call

timeVars == <<now>>
loopVars == <<pc, clear_idx, restarts>>
gestureVars == <<enc_is_pressed, enc_last_state, enc_press_start, enc_button_state, cyc, prev, sess>>
emergVars == <<btn_is_pressed, emergency_reset_start, reset_status, reset_progress, hold>>
flagVars == <<button_states, states, edges>>
deltaVars == <<enc_steps, enc_delta, produced, returned, step_events>>
cfgVars == <<default_ba, config, aliased, file, reset_done>>
codecVars == <<setup_pin, discriminator, manual_code_cache, manual_result,
               vendor_id, product_id, qr_payload_cache, qr_result>>
wiringVars == <<buttons, emergency_reset_buttons, hw_failed, fault, skipped>>
unitVars == <<vh_code, vh_pos, vh_digit, vh_result, menu_len, selected_index, scroll_offset, menu_last>>
velVars == <<enc_velocity, last_enc_time, vel_last>>
armVars == <<arm>>
navVars == <<current_screen, screen_stack, main_menu, screens_made, nav_last>>
devVars == <<device>>
srvVars == <<server>>
bmVars == <<bm_last>>
extVars == <<velVars, armVars, navVars, devVars, srvVars, bmVars>>
vars == <<timeVars, loopVars, gestureVars, emergVars, flagVars, deltaVars, cfgVars, codecVars,
          wiringVars, unitVars, extVars>>

(***************************************************************************)
(* Constants of the program and bounds of the model                        *)
(***************************************************************************)
\* None, as a value no timestamp takes.
NONE == 0 - 1

Truthy(x) == x # NONE /\ x # 0

Min(a, b) == IF a <= b THEN a ELSE b

long_press_threshold == 500

EMERGENCY_RESET_DURATION == 10000

\* ENC_A, ENC_B, ENC_PUSH: the encoder is named by its A pin
ENC_A == 17

ENC_PUSH == 22

BUTTON_PINS == <<5, 6, 16, 26, 12, 21>>

EMERGENCY_RESET_BUTTONS == {5, 21}

Pins == {BUTTON_PINS[i] : i \in 1..Len(BUTTON_PINS)}

\* The instants at which the environment or the loop can act: a grid of
\* Quantum ms around the start, the long-press threshold and the emergency
\* duration.
Quantum == 100

StartTicks == 1

LateTicks == 2

Epoch == 10 * Quantum

CoarseOffsets ==
    {k * Quantum : k \in 0..StartTicks}
    \cup {long_press_threshold + k * Quantum : k \in -1..1}
    \cup {EMERGENCY_RESET_DURATION + k * Quantum : k \in -1..LateTicks}

\* With one instant inside the first quantum, so that elapsed times are
\* not all multiples of the quantum.
Offsets == CoarseOffsets \cup {Quantum \div 3}

Instants == {Epoch + o : o \in Offsets}

CoarseInstants == {Epoch + o : o \in CoarseOffsets}

\* Buttons other than the emergency pair that the environment presses.
OtherPressed == 1

Pressable == EMERGENCY_RESET_BUTTONS \cup {BUTTON_PINS[i] : i \in 2..(1 + OtherPressed)}

\* Buttons whose press callback the environment fires.
EdgeButtons == 2

EdgePins == {BUTTON_PINS[i] : i \in 1..EdgeButtons}

Cap(n) == Min(n, 2)

(***************************************************************************)
(* InputHandler: the pure part of each method                              *)
(***************************************************************************)

\* InputHandler.get_encoder_button_state that does not remember the press:
\* enc_last_state is not set when 'pressed' is returned.
get_encoder_button_state_NoEdge(is_pressed, current_time, last, start) ==
    IF is_pressed /\ ~last
    THEN [ret |-> "pressed", last |-> last, start |-> current_time]
    ELSE IF ~is_pressed /\ last
    THEN IF Truthy(start)
         THEN IF current_time - start >= long_press_threshold
              THEN [ret |-> "long_press", last |-> FALSE, start |-> NONE]
              ELSE [ret |-> "short_press", last |-> FALSE, start |-> NONE]
         ELSE [ret |-> "none", last |-> FALSE, start |-> start]
    ELSE IF is_pressed /\ last /\ Truthy(start)
            /\ current_time - start >= long_press_threshold
    THEN [ret |-> "long_press", last |-> last, start |-> NONE]
    ELSE [ret |-> "none", last |-> last, start |-> start]

\* InputHandler.get_encoder_button_state with a long press that is not
\* latched: enc_press_start is kept after 'long_press' was returned.
get_encoder_button_state_NoLatch(is_pressed, current_time, last, start) ==
    IF is_pressed /\ ~last
    THEN [ret |-> "pressed", last |-> TRUE, start |-> current_time]
    ELSE IF ~is_pressed /\ last
    THEN IF Truthy(start)
         THEN IF current_time - start >= long_press_threshold
              THEN [ret |-> "long_press", last |-> FALSE, start |-> NONE]
              ELSE [ret |-> "short_press", last |-> FALSE, start |-> NONE]
         ELSE [ret |-> "none", last |-> FALSE, start |-> start]
    ELSE IF is_pressed /\ last /\ Truthy(start)
            /\ current_time - start >= long_press_threshold
    THEN [ret |-> "long_press", last |-> last, start |-> start]
    ELSE [ret |-> "none", last |-> last, start |-> start]

\* InputHandler.get_encoder_button_state whose release branch does not look
\* at the duration.
get_encoder_button_state_ReleaseLong(is_pressed, current_time, last, start) ==
    IF is_pressed /\ ~last
    THEN [ret |-> "pressed", last |-> TRUE, start |-> current_time]
    ELSE IF ~is_pressed /\ last
    THEN IF Truthy(start)
         THEN [ret |-> "long_press", last |-> FALSE, start |-> NONE]
         ELSE [ret |-> "none", last |-> FALSE, start |-> start]
    ELSE IF is_pressed /\ last /\ Truthy(start)
            /\ current_time - start >= long_press_threshold
    THEN [ret |-> "long_press", last |-> last, start |-> NONE]
    ELSE [ret |-> "none", last |-> last, start |-> start]

\* InputHandler.get_encoder_button_state: the value returned and the new
\* enc_last_state and enc_press_start.
get_encoder_button_state(is_pressed, current_time, last, start) ==
    IF is_pressed /\ ~last
    THEN \* Button just pressed
         [ret |-> "pressed", last |-> TRUE, start |-> current_time]
    ELSE IF ~is_pressed /\ last
    THEN \* Button released
         IF Truthy(start)
         THEN IF current_time - start >= long_press_threshold
              THEN [ret |-> "long_press", last |-> FALSE, start |-> NONE]
              ELSE [ret |-> "short_press", last |-> FALSE, start |-> NONE]
         ELSE [ret |-> "none", last |-> FALSE, start |-> start]
    ELSE IF is_pressed /\ last /\ Truthy(start)
            /\ current_time - start >= long_press_threshold
    THEN \* Button held down: return long_press once, then reset
         [ret |-> "long_press", last |-> last, start |-> NONE]
    ELSE [ret |-> "none", last |-> last, start |-> start]

\* check_emergency_reset that takes any pressed button for a required pin
all_pressed_AnyButton(levels) ==
    \A pin \in emergency_reset_buttons : \E b \in buttons : levels[b]

\* all(any(b.pin.number == pin and b.is_pressed for b in self.buttons)
\*     for pin in self.emergency_reset_buttons)
all_pressed(levels) ==
    \A pin \in emergency_reset_buttons : \E b \in buttons : b = pin /\ levels[b]

\* The orders in which the set emergency_reset_buttons can be iterated
ReadOrders ==
    {order \in [1..Cardinality(emergency_reset_buttons) -> emergency_reset_buttons] :
        \A i, j \in DOMAIN order : i # j => order[i] # order[j]}

RECURSIVE LevelReads(_, _, _)
\* The buttons whose is_pressed the generator expressions of
\* check_emergency_reset read, in order, from position i of the iteration:
\* b.is_pressed is read only for the button with b.pin.number == pin, and
\* all() stops at the first required pin that is not a pressed button; a
\* read that raises (fault) is the last one.
LevelReads(order, i, levels) ==
    IF i > Len(order) THEN <<>>
    ELSE IF order[i] \notin buttons THEN <<>>
    ELSE IF order[i] = fault \/ ~levels[order[i]] THEN <<order[i]>>
    ELSE <<order[i]>> \o LevelReads(order, i + 1, levels)

\* The channels a tick of run() samples: the required buttons, the encoder
\* and the encoder button.
TickChannels == (emergency_reset_buttons \cap buttons) \cup {ENC_A, ENC_PUSH}

\* SmartPanel is constructed and run() has not ended.
Running == pc \notin {"init", "crashed", "shutdown"}

\* InputHandler.check_emergency_reset that keeps the start timestamp when
\* the combo is released.
check_emergency_reset_NoCancel(levels, start, current_time) ==
    IF all_pressed(levels)
    THEN LET s == IF start = NONE THEN current_time ELSE start
             elapsed == current_time - s
         IN  IF elapsed >= EMERGENCY_RESET_DURATION
             THEN [status |-> "triggered", progress |-> 100, start |-> s]
             ELSE [status |-> "active",
                   progress |-> Min(100, (elapsed * 100) \div EMERGENCY_RESET_DURATION),
                   start |-> s]
    ELSE [status |-> "none", progress |-> 0, start |-> start]

\* InputHandler.check_emergency_reset that rounds the progress to the
\* nearest percent.
check_emergency_reset_Round(levels, start, current_time) ==
    IF all_pressed(levels)
    THEN LET s == IF start = NONE THEN current_time ELSE start
             elapsed == current_time - s
         IN  IF elapsed >= EMERGENCY_RESET_DURATION
             THEN [status |-> "triggered", progress |-> 100, start |-> s]
             ELSE [status |-> "active",
                   progress |-> Min(100, (elapsed * 100 + EMERGENCY_RESET_DURATION \div 2)
                                         \div EMERGENCY_RESET_DURATION),
                   start |-> s]
    ELSE [status |-> "none", progress |-> 0, start |-> NONE]

\* InputHandler.check_emergency_reset without the elapsed >= duration
\* branch: a completed hold is reported as 'active'.
check_emergency_reset_NoTrigger(levels, start, current_time) ==
    IF all_pressed(levels)
    THEN LET s == IF start = NONE THEN current_time ELSE start
             elapsed == current_time - s
         IN  [status |-> "active",
              progress |-> Min(100, (elapsed * 100) \div EMERGENCY_RESET_DURATION),
              start |-> s]
    ELSE [status |-> "none", progress |-> 0, start |-> NONE]

\* InputHandler.check_emergency_reset: (status, progress) and the new
\* emergency_reset_start.
check_emergency_reset(levels, start, current_time) ==
    IF all_pressed(levels)
    THEN LET s == IF start = NONE THEN current_time ELSE start
             elapsed == current_time - s
         IN  IF elapsed >= EMERGENCY_RESET_DURATION
             THEN [status |-> "triggered", progress |-> 100, start |-> s]
             ELSE [status |-> "active",
                   progress |-> Min(100, (elapsed * 100) \div EMERGENCY_RESET_DURATION),
                   start |-> s]
    ELSE [status |-> "none", progress |-> 0, start |-> NONE]

\* enc_velocity is a quotient of steps by seconds, kept as steps * 1000
\* over milliseconds; 0 after construction.
ZeroVelocity == [num |-> 0, den |-> 1]

Abs(n) == IF n < 0 THEN 0 - n ELSE n

\* get_encoder_delta that stamps last_enc_time on every call.
track_velocity_Always(delta, current_time, velocity, last) ==
    LET time_delta == current_time - last
    IN  [enc_velocity |-> IF delta # 0 /\ time_delta > 0
                          THEN [num |-> Abs(delta) * 1000, den |-> time_delta]
                          ELSE velocity,
         last_enc_time |-> current_time]

\* get_encoder_delta, the velocity tracking: the new enc_velocity and
\* last_enc_time.
track_velocity(delta, current_time, velocity, last) ==
    IF delta # 0
    THEN LET time_delta == current_time - last
         IN  [enc_velocity |-> IF time_delta > 0
                               THEN [num |-> Abs(delta) * 1000, den |-> time_delta]
                               ELSE velocity,
              last_enc_time |-> current_time]
    ELSE [enc_velocity |-> velocity, last_enc_time |-> last]

\* InputHandler.is_fast_scroll: self.enc_velocity > 5.0
is_fast_scroll(velocity) == velocity.num > 5 * velocity.den

\* SmartPanel.run that treats 'triggered' like 'active' and keeps polling.
AfterCheck_NoBreak(status) ==
    IF status \in {"triggered", "active"} THEN "check" ELSE "delta_read"

\* SmartPanel.run without the continue of the 'active' branch: the tick goes
\* on to drain the input.
AfterCheck_NoContinue(status) ==
    IF status = "triggered" THEN "emergency_reset" ELSE "delta_read"

\* SmartPanel.run: where the loop goes after check_emergency_reset.
AfterCheck(status) ==
    CASE status = "triggered" -> "emergency_reset"
      [] status = "active" -> "check"
      [] OTHER -> "delta_read"

AllFalse == [p \in Pins |-> FALSE]

(***************************************************************************)
(* config.py and ButtonManager: the persisted configuration.  Of the        *)
(* settings, 'auto_refresh' and the nested 'button_assignments' dictionary  *)
(* are modelled.  A dictionary key is an int or a str, as json sees it.     *)
(***************************************************************************)
IntKey(p) == [kind |-> "int", pin |-> p]

StrKey(p) == [kind |-> "str", pin |-> p]

EmptyDict == [k \in {} |-> "none"]

\* list(BUTTON_FUNCTIONS.keys())
available_functions == <<"none", "back", "select", "menu", "matter_qr", "offset_cycle">>

\* DEFAULT_CONFIG['button_assignments'] as the module defines it
DEFAULT_BA ==
    [k \in {IntKey(p) : p \in Pins} |->
        CASE k.pin = 16 -> "back"
          [] k.pin = 12 -> "offset_cycle"
          [] k.pin = 21 -> "matter_qr"
          [] OTHER -> "none"]

NoFile == [exists |-> FALSE, auto_refresh |-> FALSE, ba |-> EmptyDict]

NoConfig == [loaded |-> FALSE, auto_refresh |-> FALSE, ba |-> EmptyDict]

\* sorted(dct.items()) of json.dumps(..., sort_keys=True) raises TypeError
\* on a dictionary that has int and str keys
MixedKeys(d) == \E k1, k2 \in DOMAIN d : k1.kind # k2.kind

\* json.dumps writes every key as a string
ToStrKeys(d) ==
    [k \in {StrKey(j.pin) : j \in DOMAIN d} |->
        d[CHOOSE j \in DOMAIN d : j.pin = k.pin]]

Put(d, key, v) == [k \in DOMAIN d \cup {key} |-> IF k = key THEN v ELSE d[k]]

\* config.save_config: the new contents of CONFIG_FILE; an exception of
\* json.dumps is caught and logged, and the file is left as it was.
save_config(cfg, f) ==
    IF MixedKeys(cfg.ba)
    THEN f
    ELSE [exists |-> TRUE, auto_refresh |-> cfg.auto_refresh, ba |-> ToStrKeys(cfg.ba)]

\* config.load_config: DEFAULT_CONFIG.copy() is a shallow copy, so without
\* a file the nested dictionary of the result is DEFAULT_CONFIG's own.
load_config(f, dba) ==
    IF f.exists
    THEN [config |-> [loaded |-> TRUE, auto_refresh |-> f.auto_refresh, ba |-> f.ba],
          aliased |-> FALSE,
          file |-> f]
    ELSE LET c == [loaded |-> TRUE, auto_refresh |-> TRUE, ba |-> dba]
         IN  [config |-> c, aliased |-> TRUE, file |-> save_config(c, f)]

\* config.reset_config: save_config(DEFAULT_CONFIG.copy())
reset_config(f, dba) ==
    save_config([loaded |-> TRUE, auto_refresh |-> TRUE, ba |-> dba], f)

\* ButtonManager.get_button_function
get_button_function(ba, pin) ==
    IF StrKey(pin) \in DOMAIN ba THEN ba[StrKey(pin)] ELSE "none"

\* seq.index(x) if x in seq else 0, counting from 1
IndexOf(seq, x) ==
    IF \E i \in 1..Len(seq) : seq[i] = x
    THEN CHOOSE i \in 1..Len(seq) : seq[i] = x
    ELSE 1

\* ButtonConfigScreen.handle_input: the function after the current one
next_function(ba, pin) ==
    available_functions[(IndexOf(available_functions, get_button_function(ba, pin))
                         % Len(available_functions)) + 1]

\* what CONFIG_FILE holds when the defaults are stored
StoredDefaults == [exists |-> TRUE, auto_refresh |-> TRUE, ba |-> ToStrKeys(DEFAULT_BA)]

(***************************************************************************)
(* History records                                                         *)
(***************************************************************************)
\* A physical press-release cycle of the encoder button, from one press to
\* the next: downAt while held, physShort once released (held for less than
\* the threshold), whether a tick returned 'pressed' in it, whether a tick
\* sampled the level inactive in it, and the classifications returned in it.
NoCycle == [exists |-> FALSE, downAt |-> NONE, physShort |-> FALSE, pressedSeen |-> FALSE,
            releaseSeen |-> FALSE, shorts |-> 0, longs |-> 0, presses |-> 0]

\* A press as the classifier sees it, from the tick that returns 'pressed'
\* (at start) to the tick that samples the release: whether one of its
\* ticks came at elapsed >= long_press_threshold, the classifications
\* returned in it, and what the release tick returned after a long press
\* (relAfterLong) or with no long press returned before it (relFromDown).
NoSession == [open |-> FALSE, start |-> NONE, reached |-> FALSE, shorts |-> 0, longs |-> 0,
              pressed |-> 0, relAfterLong |-> "n/a", relFromDown |-> "n/a"]

\* A hold of the emergency combo as the ticks see it: the tick that first
\* found the combo held (armed_at), the last tick and what it found, the
\* ticks that reported 'triggered' (trig) and those that came at least the
\* duration after armed_at (ge), the elapsed time at which the hold was
\* found released, and the first statuses the process reported.
NoHold == [armed_at |-> NONE, last_check |-> NONE, last_all |-> FALSE, first |-> FALSE,
           trig |-> 0, ge |-> 0, cancel_el |-> NONE, trace |-> <<>>]

\* Press edges per pin: since the last copy, between the last two copies
\* (those the last call answers for), since the flag was last cleared, and
\* whether an edge is still to be reported.
NoEdges == [since_copy |-> [p \in Pins |-> 0], at_copy |-> [p \in Pins |-> 0],
            since_clear |-> [p \in Pins |-> 0], unreported |-> AllFalse]

\* No get_encoder_delta call yet.  Of a call: the delta it returned, its
\* time, and enc_velocity and last_enc_time as it found them.
NoDeltaCall == [called |-> FALSE, delta |-> 0, at |-> NONE,
                before_velocity |-> ZeroVelocity, before_time |-> NONE]

\* Objects the navigation handles: instances of the screen classes, told
\* apart by the order of their construction, with the one flag their
\* handle_input branches on (show_qr, editing_mode); and the two Menu
\* objects of _create_main_menu.
ScreenClasses == {"MenuScreen", "SystemInfoScreen", "MatterDevicesScreen", "ButtonConfigScreen",
                  "GPIOControlScreen", "SettingsScreen", "AboutScreen"}

NewScreen(class, n, flag) == [class |-> class, id |-> n, flag |-> flag]

\* self.current_screen = MenuScreen(self.main_menu) of __init__
FirstScreen == NewScreen("MenuScreen", 0, FALSE)

MainMenuObject == [class |-> "Menu", id |-> 0, flag |-> FALSE]

PowerMenuObject == [class |-> "Menu", id |-> 1, flag |-> FALSE]

\* The object has render and handle_input.
IsScreen(o) == o.class \in ScreenClasses

\* Menu.__init__: selected_index = 0, scroll_offset = 0
MenuTop == [selected_index |-> 0, scroll_offset |-> 0]

\* No navigation step yet.  Of a step: what it did, the screen and the
\* stack as the last push found them, and whether that push is the latest
\* change of screen.
NoNavigation == [kind |-> "none", from_screen |-> FirstScreen, from_stack |-> <<>>,
                 pushed |-> FALSE]

\* MatterButtonDevice.__init__: no cached strings; and no call made yet.
NewDevice == [qr_cache |-> <<>>, manual_cache |-> <<>>,
              qr_called |-> FALSE, qr_code |-> <<>>,
              manual_called |-> FALSE, manual_code |-> <<>>]

\* No MatterServer yet.  enabled is matter_enabled of the configuration;
\* start_pc is the position of the thread the constructor runs start() in,
\* stop_pc the position of the stop() call of run()'s finally block;
\* threads counts the live _run_server threads; returned tells that stop()
\* has returned.
NoServer == [enabled |-> TRUE, running |-> FALSE, server_thread |-> FALSE,
             start_pc |-> "none", stop_pc |-> "none", threads |-> 0, returned |-> FALSE]

\* MatterServer.__init__: running = False, server_thread = None, and
\* threading.Thread(target=self.start).start() when enabled.
MatterServerInit(srv) ==
    [srv EXCEPT !.running = FALSE, !.server_thread = FALSE,
                !.start_pc = IF srv.enabled THEN "begin" ELSE "none"]

\* No ButtonManager call yet.  Of a call: its arguments and result, the
\* assignments and the file as it found them, and whether any assignment
\* was made since the configuration was first loaded.
NoManagerCall == [op |-> "none", pin |-> 0, function |-> "none", result |-> "none",
                  before_ba |-> EmptyDict, before_file |-> NoFile,
                  assigned |-> FALSE, reloaded |-> FALSE]

\* Input pending over an arming: the pins whose flag was latched when the
\* arming began or got latched during it, encoder.steps as the arming left
\* it, and the steps that came between the cancelling check and the drain.
NoArming == [phase |-> "idle", edges |-> {}, steps |-> 0, after |-> 0]

B2N(b) == IF b THEN 1 ELSE 0

(***************************************************************************)
(* The main thread: SmartPanel.__init__ and SmartPanel.run                 *)
(***************************************************************************)
MaxRestarts == 1

\* The state of a process image right after exec: nothing constructed, the
\* module-level DEFAULT_CONFIG as written in config.py.
FreshProcess ==
    /\ enc_last_state' = FALSE
    /\ enc_press_start' = NONE
    /\ enc_button_state' = "none"
    /\ sess' = NoSession
    /\ emergency_reset_start' = NONE
    /\ reset_status' = "none"
    /\ reset_progress' = 0
    /\ hold' = NoHold
    /\ button_states' = AllFalse
    /\ states' = AllFalse
    /\ edges' = NoEdges
    /\ enc_steps' = 0
    /\ enc_delta' = 0
    /\ default_ba' = DEFAULT_BA
    /\ config' = NoConfig
    /\ aliased' = FALSE
    /\ manual_code_cache' = <<>>
    /\ qr_payload_cache' = <<>>
    /\ enc_velocity' = ZeroVelocity
    /\ last_enc_time' = NONE
    /\ vel_last' = NoDeltaCall
    /\ arm' = NoArming
    /\ current_screen' = FirstScreen
    /\ screen_stack' = <<>>
    /\ main_menu' = MenuTop
    /\ screens_made' = 1
    /\ nav_last' = NoNavigation
    /\ device' = NewDevice
    /\ server' = NoServer
    /\ bm_last' = NoManagerCall

\* SmartPanel.__init__: load_config(), then InputHandler, ButtonManager and
\* MatterServer are constructed on it.  InputHandler.__init__ constructs the
\* gpiozero devices with no exception handler, and neither __init__ nor
\* main() has one: the exception of the device that fails (hw_failed) ends
\* the process.
Startup ==
    /\ pc = "init"
    /\ LET l == load_config(file, default_ba)
       IN  /\ config' = l.config
           /\ aliased' = l.aliased
           /\ file' = l.file
    /\ pc' = IF hw_failed = NONE THEN "check" ELSE "crashed"
    /\ last_enc_time' = IF hw_failed = NONE THEN now ELSE last_enc_time
    /\ server' = IF hw_failed = NONE THEN MatterServerInit(server) ELSE server
    /\ UNCHANGED <<clear_idx, restarts, default_ba, reset_done, enc_velocity, vel_last, arm, navVars, devVars, bmVars>>
    /\ UNCHANGED <<wiringVars, unitVars, timeVars, gestureVars, emergVars, flagVars, deltaVars, codecVars>>

\* run(): reset_status, reset_progress = check_emergency_reset(), and the
\* branch on reset_status ('active' shows the progress and continues).
RunCheck ==
    /\ pc = "check"
    /\ \E order \in ReadOrders :
          LET reads == LevelReads(order, 1, btn_is_pressed)
          IN  \A i \in DOMAIN reads : reads[i] # fault
    /\ LET r == check_emergency_reset(btn_is_pressed, emergency_reset_start, now)
           all == all_pressed(btn_is_pressed)
           first == all /\ ~hold.last_all
           armed == IF ~all THEN NONE ELSE IF first THEN now ELSE hold.armed_at
       IN  /\ emergency_reset_start' = r.start
           /\ reset_status' = r.status
           /\ reset_progress' = r.progress
           /\ pc' = AfterCheck(r.status)
           /\ hold' = [armed_at |-> armed,
                       last_check |-> now,
                       last_all |-> all,
                       first |-> first,
                       trig |-> IF all THEN Cap((IF first THEN 0 ELSE hold.trig)
                                                + B2N(r.status = "triggered"))
                                ELSE 0,
                       ge |-> IF all THEN Cap((IF first THEN 0 ELSE hold.ge)
                                              + B2N(now - armed >= EMERGENCY_RESET_DURATION))
                              ELSE 0,
                       cancel_el |-> IF ~all /\ hold.last_all
                                     THEN now - hold.armed_at ELSE hold.cancel_el,
                       trace |-> IF Len(hold.trace) < 3
                                    /\ (hold.trace = <<>> \/ hold.trace[Len(hold.trace)] # r.status)
                                 THEN Append(hold.trace, r.status) ELSE hold.trace]
           /\ arm' = CASE r.status = "active" /\ emergency_reset_start = NONE ->
                             [phase |-> "arming",
                              edges |-> {p \in Pins : button_states[p]},
                              steps |-> enc_steps, after |-> 0]
                        [] r.status = "none" /\ arm.phase = "arming" ->
                             [arm EXCEPT !.phase = "deliver"]
                        [] OTHER -> arm
    /\ UNCHANGED <<clear_idx, restarts, btn_is_pressed>>
    /\ UNCHANGED <<velVars, navVars, devVars, bmVars, srvVars, wiringVars, unitVars, timeVars, gestureVars, flagVars, deltaVars, cfgVars, codecVars>>

\* run(): a read of a level raises inside check_emergency_reset,
\* get_encoder_delta or get_encoder_button_state; 'except Exception' logs
\* it, 'finally' cleans up and run() returns.  The channels of the tick
\* not read before the exception are never read.
RunRaise ==
    /\ fault # NONE
    /\ \/ /\ pc = "check"
          /\ \E order \in ReadOrders :
                LET reads == LevelReads(order, 1, btn_is_pressed)
                IN  /\ \E i \in DOMAIN reads : reads[i] = fault
                    /\ skipped' = TickChannels \ {reads[i] : i \in DOMAIN reads}
       \/ /\ pc = "delta_read"
          /\ fault = ENC_A
          /\ skipped' = {ENC_PUSH}
       \/ /\ pc = "enc_button"
          /\ fault = ENC_PUSH
          /\ skipped' = {}
    /\ pc' = "shutdown"
    /\ UNCHANGED <<clear_idx, restarts, buttons, emergency_reset_buttons, hw_failed, fault>>
    /\ UNCHANGED <<extVars, unitVars, timeVars, gestureVars, emergVars, flagVars, deltaVars, cfgVars, codecVars>>

\* The read of the level of channel ch starts to raise (the device was
\* closed or the GPIO chip reports an error).
SetFault(ch) ==
    /\ Running
    /\ ch \in TickChannels
    /\ fault = NONE
    /\ fault' = ch
    /\ UNCHANGED <<buttons, emergency_reset_buttons, hw_failed, skipped>>
    /\ UNCHANGED <<extVars, unitVars, timeVars, loopVars, gestureVars, emergVars, flagVars, deltaVars, cfgVars, codecVars>>

\* get_encoder_delta: delta = self.encoder.steps
RunDeltaRead ==
    /\ pc = "delta_read"
    /\ fault # ENC_A
    /\ enc_delta' = enc_steps
    /\ pc' = "delta_reset"
    /\ UNCHANGED <<clear_idx, restarts, enc_steps, produced, returned, step_events>>
    /\ UNCHANGED <<extVars, wiringVars, unitVars, timeVars, gestureVars, emergVars, flagVars, cfgVars, codecVars>>

\* get_encoder_delta: self.encoder.steps = 0; the velocity tracking;
\* return delta
RunDeltaReset ==
    /\ pc = "delta_reset"
    /\ enc_steps' = 0
    /\ returned' = returned + enc_delta
    /\ LET r == track_velocity(enc_delta, now, enc_velocity, last_enc_time)
       IN  /\ enc_velocity' = r.enc_velocity
           /\ last_enc_time' = r.last_enc_time
    /\ vel_last' = [called |-> TRUE, delta |-> enc_delta,
                    at |-> IF enc_delta # 0 THEN now ELSE NONE,
                    before_velocity |-> enc_velocity, before_time |-> last_enc_time]
    /\ pc' = "enc_button"
    /\ UNCHANGED <<clear_idx, restarts, enc_delta, produced, step_events, arm, navVars, devVars, bmVars, srvVars>>
    /\ UNCHANGED <<wiringVars, unitVars, timeVars, gestureVars, emergVars, flagVars, cfgVars, codecVars>>

\* run(): enc_button_state = get_encoder_button_state()
RunEncButton ==
    /\ pc = "enc_button"
    /\ fault # ENC_PUSH
    /\ LET r == get_encoder_button_state(enc_is_pressed, now, enc_last_state, enc_press_start)
           open == sess.open
           reached == now - sess.start >= long_press_threshold
       IN  /\ enc_last_state' = r.last
           /\ enc_press_start' = r.start
           /\ enc_button_state' = r.ret
           /\ cyc' = IF cyc.exists
                     THEN [cyc EXCEPT !.pressedSeen = @ \/ (r.ret = "pressed"),
                                      !.presses = Cap(@ + B2N(r.ret = "pressed")),
                                      !.releaseSeen = @ \/ ~enc_is_pressed,
                                      !.shorts = Cap(@ + B2N(r.ret = "short_press")),
                                      !.longs = Cap(@ + B2N(r.ret = "long_press"))]
                     ELSE cyc
           /\ sess' = IF r.ret = "pressed" /\ ~open
                      THEN [NoSession EXCEPT !.open = TRUE, !.start = now, !.pressed = 1]
                      ELSE IF open
                      THEN [sess EXCEPT !.open = enc_is_pressed,
                                        !.start = IF enc_is_pressed THEN @ ELSE NONE,
                                        !.reached = @ \/ reached,
                                        !.shorts = Cap(@ + B2N(r.ret = "short_press")),
                                        !.longs = Cap(@ + B2N(r.ret = "long_press")),
                                        !.pressed = Cap(@ + B2N(r.ret = "pressed")),
                                        !.relAfterLong =
                                            IF ~enc_is_pressed /\ sess.longs >= 1
                                            THEN r.ret ELSE @,
                                        !.relFromDown =
                                            IF ~enc_is_pressed /\ sess.longs = 0
                                            THEN r.ret ELSE @]
                      ELSE sess
    /\ pc' = "buttons_copy"
    /\ UNCHANGED <<clear_idx, restarts, enc_is_pressed, prev>>
    /\ UNCHANGED <<extVars, wiringVars, unitVars, timeVars, emergVars, flagVars, deltaVars, cfgVars, codecVars>>

\* get_button_states whose loop leaves the flag as it is.
ClearFlag_Skip(bs, p) == bs

\* get_button_states: self.button_states[p] = False
ClearFlag(bs, p) == [bs EXCEPT ![p] = FALSE]

\* get_button_states: states = self.button_states.copy()
RunButtonsCopy ==
    /\ pc = "buttons_copy"
    /\ states' = button_states
    /\ edges' = [edges EXCEPT !.at_copy = edges.since_copy,
                              !.since_copy = [p \in Pins |-> 0],
                              !.unreported = [p \in Pins |-> @[p] /\ ~button_states[p]]]
    /\ pc' = "buttons_clear"
    /\ clear_idx' = 1
    /\ UNCHANGED <<restarts, button_states>>
    /\ UNCHANGED <<extVars, wiringVars, unitVars, timeVars, gestureVars, emergVars, deltaVars, cfgVars, codecVars>>

\* get_button_states: one round of  for p in self.button_pins
RunButtonsClear ==
    /\ pc = "buttons_clear"
    /\ LET p == BUTTON_PINS[clear_idx]
       IN  /\ button_states' = ClearFlag(button_states, p)
           /\ edges' = [edges EXCEPT !.since_clear[p] = 0]
    /\ IF clear_idx = Len(BUTTON_PINS)
       THEN pc' = "dispatch" /\ clear_idx' = 0
       ELSE pc' = pc /\ clear_idx' = clear_idx + 1
    /\ UNCHANGED <<restarts, states>>
    /\ UNCHANGED <<extVars, wiringVars, unitVars, timeVars, gestureVars, emergVars, deltaVars, cfgVars, codecVars>>

\* The locals of one iteration of run() are dead after it.
EndOfIteration ==
    /\ pc' = "check"
    /\ enc_delta' = 0
    /\ enc_button_state' = "none"
    /\ states' = AllFalse
    /\ arm' = IF arm.phase = "deliver" THEN NoArming ELSE arm
    /\ UNCHANGED <<clear_idx, restarts, now, wiringVars, unitVars, velVars, navVars, devVars, bmVars, srvVars>>
    /\ UNCHANGED <<enc_is_pressed, enc_last_state, enc_press_start, cyc, prev, sess>>
    /\ UNCHANGED <<emergVars, button_states, edges, enc_steps, produced, returned, step_events>>
    /\ UNCHANGED <<reset_done, codecVars>>

\* run(): the rest of the iteration with a screen that changes no setting:
\* button actions, handle_input, render, sleep(DT).
RunDispatch ==
    /\ pc = "dispatch"
    /\ EndOfIteration
    /\ UNCHANGED <<default_ba, config, aliased, file>>

\* run() with the SettingsScreen on 'Auto Refresh' and the encoder turned:
\* SettingsScreen.handle_input stores not value and saves the configuration.
RunDispatchSettings ==
    /\ pc = "dispatch"
    /\ config.loaded
    /\ LET c == [config EXCEPT !.auto_refresh = ~@]
       IN  /\ config' = c
           /\ file' = save_config(c, file)
    /\ EndOfIteration
    /\ UNCHANGED <<default_ba, aliased>>

\* Buttons the user edits on the ButtonConfigScreen (selected_button).
CfgButtons == 1

\* ButtonManager.set_button_function: the dictionary object that config and
\* the manager share gets the key str(pin).
set_button_function(ba, pin, function) ==
    IF \A i \in 1..Len(available_functions) : available_functions[i] # function
    THEN ba
    ELSE Put(ba, StrKey(pin), function)

\* run() with the ButtonConfigScreen in editing mode and a short press:
\* ButtonConfigScreen.handle_input assigns the next function to the pin.
RunDispatchButtonConfig(pin) ==
    /\ pc = "dispatch"
    /\ config.loaded
    /\ LET ba == set_button_function(config.ba, pin, next_function(config.ba, pin))
           c == [config EXCEPT !.ba = ba]
       IN  /\ config' = c
           /\ default_ba' = IF aliased THEN ba ELSE default_ba
           /\ file' = save_config(c, file)
    /\ EndOfIteration
    /\ UNCHANGED aliased

\* SmartPanel._emergency_reset: reset_config(), the confirmation screen,
\* then os.execl replaces the process image.
EmergencyReset ==
    /\ pc = "emergency_reset"
    /\ restarts < MaxRestarts
    /\ file' = reset_config(file, default_ba)
    /\ reset_done' = TRUE
    /\ FreshProcess
    /\ pc' = "init"
    /\ clear_idx' = 0
    /\ restarts' = restarts + 1
    /\ produced' = 0
    /\ returned' = 0
    /\ UNCHANGED <<now, enc_is_pressed, cyc, prev, btn_is_pressed, step_events>>
    /\ UNCHANGED <<wiringVars, unitVars>>
    /\ UNCHANGED <<setup_pin, discriminator, manual_result, vendor_id, product_id, qr_result>>

(***************************************************************************)
(* The environment: hardware levels, gpiozero's threads, the clock         *)
(***************************************************************************)
\* The encoder push button goes to its active level.
EncButtonDown ==
    /\ Running
    /\ ~enc_is_pressed
    /\ enc_is_pressed' = TRUE
    /\ prev' = IF cyc.exists THEN cyc ELSE prev
    /\ cyc' = [NoCycle EXCEPT !.exists = TRUE, !.downAt = now]
    /\ UNCHANGED <<enc_last_state, enc_press_start, enc_button_state, sess>>
    /\ UNCHANGED <<extVars, wiringVars, unitVars, timeVars, loopVars, emergVars, flagVars, deltaVars, cfgVars, codecVars>>

\* The encoder push button is released.
EncButtonUp ==
    /\ Running
    /\ enc_is_pressed
    /\ enc_is_pressed' = FALSE
    /\ cyc' = [cyc EXCEPT !.downAt = NONE,
                          !.physShort = now - cyc.downAt < long_press_threshold]
    /\ UNCHANGED <<enc_last_state, enc_press_start, enc_button_state, prev, sess>>
    /\ UNCHANGED <<extVars, wiringVars, unitVars, timeVars, loopVars, emergVars, flagVars, deltaVars, cfgVars, codecVars>>

\* The level of a discrete button goes active.
ButtonDown(p) ==
    /\ Running
    /\ ~btn_is_pressed[p]
    /\ btn_is_pressed' = [btn_is_pressed EXCEPT ![p] = TRUE]
    /\ UNCHANGED <<emergency_reset_start, reset_status, reset_progress, hold>>
    /\ UNCHANGED <<extVars, wiringVars, unitVars, timeVars, loopVars, gestureVars, flagVars, deltaVars, cfgVars, codecVars>>

\* The level of a discrete button goes inactive.
ButtonUp(p) ==
    /\ Running
    /\ btn_is_pressed[p]
    /\ btn_is_pressed' = [btn_is_pressed EXCEPT ![p] = FALSE]
    /\ UNCHANGED <<emergency_reset_start, reset_status, reset_progress, hold>>
    /\ UNCHANGED <<extVars, wiringVars, unitVars, timeVars, loopVars, gestureVars, flagVars, deltaVars, cfgVars, codecVars>>

\* InputHandler._button_pressed, run by gpiozero's thread for one
\* qualifying press edge of pin p.
ButtonPressedCallback(p) ==
    /\ Running
    /\ button_states' = [button_states EXCEPT ![p] = TRUE]
    /\ edges' = [edges EXCEPT !.since_copy[p] = Cap(@ + 1),
                              !.since_clear[p] = Cap(@ + 1),
                              !.unreported[p] = TRUE]
    /\ arm' = IF arm.phase = "arming" THEN [arm EXCEPT !.edges = @ \cup {p}] ELSE arm
    /\ UNCHANGED states
    /\ UNCHANGED <<velVars, navVars, devVars, bmVars, srvVars, wiringVars, unitVars, timeVars, loopVars, gestureVars, emergVars, deltaVars, cfgVars, codecVars>>

\* A press of button p as gpiozero handles it: the level goes active and
\* when_pressed runs _button_pressed(p) for the edge.
ButtonPressEdge(p) ==
    /\ Running
    /\ ~btn_is_pressed[p]
    /\ btn_is_pressed' = [btn_is_pressed EXCEPT ![p] = TRUE]
    /\ button_states' = [button_states EXCEPT ![p] = TRUE]
    /\ edges' = [edges EXCEPT !.since_copy[p] = Cap(@ + 1),
                              !.since_clear[p] = Cap(@ + 1),
                              !.unreported[p] = TRUE]
    /\ arm' = IF arm.phase = "arming" THEN [arm EXCEPT !.edges = @ \cup {p}] ELSE arm
    /\ UNCHANGED <<states, emergency_reset_start, reset_status, reset_progress, hold>>
    /\ UNCHANGED <<velVars, navVars, devVars, bmVars, srvVars, wiringVars, unitVars, timeVars, loopVars, gestureVars, deltaVars, cfgVars, codecVars>>

\* Encoder steps the model lets the hardware produce.
MaxStepEvents == 3

\* gpiozero's thread counts one detent of the rotary encoder.
EncoderStep(d) ==
    /\ Running
    /\ step_events < MaxStepEvents
    /\ enc_steps' = enc_steps + d
    /\ produced' = produced + d
    /\ step_events' = step_events + 1
    /\ arm' = CASE arm.phase = "arming" -> [arm EXCEPT !.steps = @ + d]
                 [] arm.phase = "deliver" /\ pc = "delta_read" -> [arm EXCEPT !.after = @ + d]
                 [] OTHER -> arm
    /\ UNCHANGED <<enc_delta, returned>>
    /\ UNCHANGED <<velVars, navVars, devVars, bmVars, srvVars, wiringVars, unitVars, timeVars, loopVars, gestureVars, emergVars, flagVars, cfgVars, codecVars>>

\* Time passes to the next instant, up to the horizon of the run. The clock
\* is first read when InputHandler is constructed, so time is counted from
\* there.
Advance(horizon) ==
    /\ pc # "init"
    /\ \E t \in Instants : t > now /\ t <= horizon
    /\ now' = CHOOSE t \in Instants : t > now /\ \A u \in Instants : u > now => t <= u
    /\ UNCHANGED <<loopVars, gestureVars, emergVars, flagVars, deltaVars, cfgVars, codecVars>>
    /\ UNCHANGED <<extVars, wiringVars, unitVars>>

\* Time as the configuration runs need it: the quantum grid only.
AdvanceCoarse(horizon) ==
    /\ pc # "init"
    /\ \E t \in CoarseInstants : t > now /\ t <= horizon
    /\ now' = CHOOSE t \in CoarseInstants :
                  t > now /\ \A u \in CoarseInstants : u > now => t <= u
    /\ UNCHANGED <<loopVars, gestureVars, emergVars, flagVars, deltaVars, cfgVars, codecVars>>
    /\ UNCHANGED <<extVars, wiringVars, unitVars>>

(***************************************************************************)
(* MatterServer: the manual pairing code.  A string is a sequence of       *)
(* one-character strings.                                                  *)
(***************************************************************************)
DigitChars == <<"0", "1", "2", "3", "4", "5", "6", "7", "8", "9">>

IsDigit(ch) == \E d \in 0..9 : DigitChars[d + 1] = ch

\* int(ch) of a digit character
CharVal(ch) == CHOOSE d \in 0..9 : DigitChars[d + 1] = ch

RECURSIVE DecimalOf(_)
\* str(n) for n >= 0
DecimalOf(n) ==
    IF n < 10 THEN <<DigitChars[n + 1]>>
    ELSE Append(DecimalOf(n \div 10), DigitChars[(n % 10) + 1])

RECURSIVE ZeroPad(_, _)
ZeroPad(str, width) == IF Len(str) >= width THEN str ELSE ZeroPad(<<"0">> \o str, width)

\* f"{n:d}": a format that does not pad.
FormatD_NoPad(n, width) ==
    IF n >= 0 THEN DecimalOf(n) ELSE <<"-">> \o DecimalOf(0 - n)

\* f"{n:0{width}d}": the sign, when there is one, takes one of the columns
FormatD(n, width) ==
    IF n >= 0 THEN ZeroPad(DecimalOf(n), width)
    ELSE <<"-">> \o ZeroPad(DecimalOf(0 - n), width - 1)

\* Python slice str[lo:hi]
Slice(str, lo, hi) == SubSeq(str, lo + 1, Min(hi, Len(str)))

\* Verhoeff multiplication table d
VerhoeffD ==
    << <<0, 1, 2, 3, 4, 5, 6, 7, 8, 9>>,
       <<1, 2, 3, 4, 0, 6, 7, 8, 9, 5>>,
       <<2, 3, 4, 0, 1, 7, 8, 9, 5, 6>>,
       <<3, 4, 0, 1, 2, 8, 9, 5, 6, 7>>,
       <<4, 0, 1, 2, 3, 9, 5, 6, 7, 8>>,
       <<5, 9, 8, 7, 6, 0, 4, 3, 2, 1>>,
       <<6, 5, 9, 8, 7, 1, 0, 4, 3, 2>>,
       <<7, 6, 5, 9, 8, 2, 1, 0, 4, 3>>,
       <<8, 7, 6, 5, 9, 3, 2, 1, 0, 4>>,
       <<9, 8, 7, 6, 5, 4, 3, 2, 1, 0>> >>

\* Verhoeff permutation table p
VerhoeffP ==
    << <<0, 1, 2, 3, 4, 5, 6, 7, 8, 9>>,
       <<1, 5, 7, 6, 2, 8, 3, 0, 9, 4>>,
       <<5, 8, 0, 3, 7, 9, 6, 1, 4, 2>>,
       <<8, 9, 1, 6, 0, 4, 3, 5, 2, 7>>,
       <<9, 4, 5, 3, 1, 2, 6, 8, 7, 0>>,
       <<4, 2, 8, 6, 5, 7, 3, 9, 0, 1>>,
       <<2, 7, 9, 3, 8, 0, 6, 4, 1, 5>>,
       <<7, 0, 4, 6, 9, 1, 3, 2, 5, 8>> >>

\* Verhoeff inverse table inv
VerhoeffInv == <<0, 4, 3, 2, 1, 5, 6, 7, 8, 9>>

RECURSIVE VerhoeffFold_SkipFirst(_, _, _)
\* the loop of _calculate_verhoeff stopping one digit early, before the
\* leftmost digit
VerhoeffFold_SkipFirst(num_str, i, c) ==
    IF i >= Len(num_str) - 1 THEN c
    ELSE VerhoeffFold_SkipFirst(num_str, i + 1,
            VerhoeffD[c + 1][VerhoeffP[((i + 1) % 8) + 1][CharVal(num_str[Len(num_str) - i]) + 1] + 1])

RECURSIVE VerhoeffFold(_, _, _)
\* the loop of _calculate_verhoeff over reversed(num_str), from index i
VerhoeffFold(num_str, i, c) ==
    IF i >= Len(num_str) THEN c
    ELSE VerhoeffFold(num_str, i + 1,
            VerhoeffD[c + 1][VerhoeffP[((i + 1) % 8) + 1][CharVal(num_str[Len(num_str) - i]) + 1] + 1])

\* MatterServer._calculate_verhoeff: int(digit) raises ValueError on a
\* character that is no digit
calculate_verhoeff(num_str) ==
    IF \E i \in 1..Len(num_str) : ~IsDigit(num_str[i])
    THEN [raised |-> TRUE, value |-> 0]
    ELSE [raised |-> FALSE, value |-> VerhoeffInv[VerhoeffFold(num_str, 0, 0) + 1]]

\* get_manual_pairing_code: the passcode put into the code
normalize_passcode(pin) ==
    LET p1 == IF pin = 0 THEN 20202021 ELSE pin
        p2 == IF p1 > 99999999 THEN p1 % 99999999 ELSE p1
    IN  IF p2 = 0 THEN 20202021 ELSE p2

\* MatterServer.get_manual_pairing_code: the string returned (and cached),
\* or the exception that leaves the method
get_manual_pairing_code(cache, disc, pin) ==
    IF cache # <<>>
    THEN [raised |-> FALSE, code |-> cache]
    ELSE LET code_without_check == FormatD(disc, 4) \o FormatD(normalize_passcode(pin), 8)
             check == calculate_verhoeff(code_without_check)
             full_code == code_without_check \o DecimalOf(check.value)
         IN  IF check.raised
             THEN [raised |-> TRUE, code |-> <<>>]
             ELSE [raised |-> FALSE,
                   code |-> Slice(full_code, 0, 4) \o <<"-">> \o Slice(full_code, 4, 8)
                            \o <<"-">> \o Slice(full_code, 8, 13)]

\* No call yet.  Of a call: whether it raised, the string it returned, the
\* string the call before it returned (<<>> for the first), the number of
\* calls (up to 2) and the identity the object had.
NotCalled ==
    [called |-> FALSE, raised |-> FALSE, code |-> <<>>, before |-> <<>>, calls |-> 0,
     vendor_id |-> 0, product_id |-> 0, discriminator |-> 0, setup_pin |-> 0]

\* The pairing screen asks the constructed MatterServer for the manual code.
GetManualPairingCode ==
    /\ Running
    /\ LET r == get_manual_pairing_code(manual_code_cache, discriminator, setup_pin)
       IN  /\ manual_result' = [called |-> TRUE, raised |-> r.raised, code |-> r.code,
                                before |-> manual_result.code,
                                calls |-> Cap(manual_result.calls + 1),
                                vendor_id |-> vendor_id, product_id |-> product_id,
                                discriminator |-> discriminator, setup_pin |-> setup_pin]
           /\ manual_code_cache' = IF r.raised THEN manual_code_cache ELSE r.code
    /\ UNCHANGED <<setup_pin, discriminator, vendor_id, product_id, qr_payload_cache, qr_result>>
    /\ UNCHANGED <<extVars, wiringVars, unitVars, timeVars, loopVars, gestureVars, emergVars, flagVars, deltaVars, cfgVars>>

\* num_str with the digit at position pos (from 1, left to right) replaced
ReplaceAt(num_str, pos, ch) == [num_str EXCEPT ![pos] = ch]

\* _calculate_verhoeff is run on the base code and on the base code with
\* one digit replaced.
VerhoeffCompare ==
    /\ vh_code # <<>>
    /\ ~vh_result.done
    /\ vh_result' = [done |-> TRUE,
                     original |-> calculate_verhoeff(vh_code).value,
                     changed |-> calculate_verhoeff(ReplaceAt(vh_code, vh_pos, vh_digit)).value]
    /\ UNCHANGED <<vh_code, vh_pos, vh_digit, menu_len, selected_index, scroll_offset, menu_last>>
    /\ UNCHANGED <<timeVars, loopVars, gestureVars, emergVars, flagVars, deltaVars, cfgVars,
                   codecVars, wiringVars, extVars>>

(***************************************************************************)
(* menu_system.Menu: items, selected_index and scroll_offset.  Of the      *)
(* items only their number is modelled.                                    *)
(***************************************************************************)
\* Items the model adds to one menu.
MaxItems == 8

\* max_visible = 6 in Menu.navigate, max_items=6 in get_visible_items
max_visible == 6

Max(a, b) == IF a > b THEN a ELSE b

\* Menu.navigate that wraps around at both ends.
navigate_Wrap(len, selected, offset, direction) ==
    IF len = 0
    THEN [selected_index |-> selected, scroll_offset |-> offset]
    ELSE LET sel == (selected + direction + len) % len
         IN  [selected_index |-> sel,
              scroll_offset |-> IF sel < offset THEN sel
                                ELSE IF sel >= offset + max_visible THEN sel - max_visible + 1
                                ELSE offset]

\* Menu.navigate on a menu of len items: the new selected_index and
\* scroll_offset.
navigate(len, selected, offset, direction) ==
    IF len = 0
    THEN [selected_index |-> selected, scroll_offset |-> offset]
    ELSE LET sel == Max(0, Min(len - 1, selected + direction))
         IN  [selected_index |-> sel,
              scroll_offset |-> IF sel < offset THEN sel
                                ELSE IF sel >= offset + max_visible THEN sel - max_visible + 1
                                ELSE offset]

\* Menu.get_visible_items: the scroll_offset it leaves.
get_visible_items(len, selected, offset) ==
    IF len <= max_visible THEN offset
    ELSE IF selected < offset THEN selected
    ELSE IF selected >= offset + max_visible THEN selected - max_visible + 1
    ELSE offset

\* menu.add_item(item)
MenuAddItem ==
    /\ menu_len < MaxItems
    /\ menu_len' = menu_len + 1
    /\ menu_last' = [op |-> "add_item", direction |-> 0, from |-> selected_index,
                     from_offset |-> scroll_offset, len |-> menu_len]
    /\ UNCHANGED <<selected_index, scroll_offset, vh_code, vh_pos, vh_digit, vh_result>>
    /\ UNCHANGED <<timeVars, loopVars, gestureVars, emergVars, flagVars, deltaVars, cfgVars,
                   codecVars, wiringVars, extVars>>

\* menu.navigate(direction), direction 1 (down) or -1 (up)
MenuNavigate(direction) ==
    /\ LET r == navigate(menu_len, selected_index, scroll_offset, direction)
       IN  /\ selected_index' = r.selected_index
           /\ scroll_offset' = r.scroll_offset
    /\ menu_last' = [op |-> "navigate", direction |-> direction, from |-> selected_index,
                     from_offset |-> scroll_offset, len |-> menu_len]
    /\ UNCHANGED <<menu_len, vh_code, vh_pos, vh_digit, vh_result>>
    /\ UNCHANGED <<timeVars, loopVars, gestureVars, emergVars, flagVars, deltaVars, cfgVars,
                   codecVars, wiringVars, extVars>>

\* The menu is rendered: menu.get_visible_items()
MenuGetVisibleItems ==
    /\ scroll_offset' = get_visible_items(menu_len, selected_index, scroll_offset)
    /\ menu_last' = [op |-> "get_visible_items", direction |-> 0, from |-> selected_index,
                     from_offset |-> scroll_offset, len |-> menu_len]
    /\ UNCHANGED <<menu_len, selected_index, vh_code, vh_pos, vh_digit, vh_result>>
    /\ UNCHANGED <<timeVars, loopVars, gestureVars, emergVars, flagVars, deltaVars, cfgVars,
                   codecVars, wiringVars, extVars>>

(***************************************************************************)
(* SmartPanel.run: screens and the navigation stack                        *)
(***************************************************************************)
\* No object: the submenu of an item that has none.
NoObject == [class |-> "None", id |-> 0, flag |-> FALSE]

\* _create_main_menu: the items of the main menu; opens is the class of the
\* screen the item's action returns.
MainMenuItems ==
    << [title |-> "System Info", enabled |-> TRUE, submenu |-> NoObject, opens |-> "SystemInfoScreen"],
       [title |-> "Matter Status", enabled |-> TRUE, submenu |-> NoObject, opens |-> "MatterDevicesScreen"],
       [title |-> "Button Config", enabled |-> TRUE, submenu |-> NoObject, opens |-> "ButtonConfigScreen"],
       [title |-> "GPIO Control", enabled |-> TRUE, submenu |-> NoObject, opens |-> "GPIOControlScreen"],
       [title |-> "Settings", enabled |-> TRUE, submenu |-> NoObject, opens |-> "SettingsScreen"],
       [title |-> "About", enabled |-> TRUE, submenu |-> NoObject, opens |-> "AboutScreen"],
       [title |-> "Power", enabled |-> TRUE, submenu |-> PowerMenuObject, opens |-> "None"] >>

\* Menu.select of the main menu: the object it returns (self is the Menu),
\* and the number of screens constructed after it.
select(items, selected, made) ==
    IF items = <<>> \/ ~items[selected + 1].enabled
    THEN [result |-> MainMenuObject, made |-> made]
    ELSE LET item == items[selected + 1]
         IN  IF item.submenu # NoObject
             THEN [result |-> item.submenu, made |-> made]
             ELSE IF item.opens # "None"
             THEN [result |-> NewScreen(item.opens, made, FALSE), made |-> made + 1]
             ELSE [result |-> MainMenuObject, made |-> made]

\* handle_input of the current screen: what it returns ('back', self as the
\* screen with its flag as the call leaves it, or another object), the
\* main menu after it, and the number of screens constructed.
handle_input(screen, menu, made, delta, button) ==
    LET stay(scr, m) == [result |-> scr, back |-> FALSE, screen |-> scr, menu |-> m, made |-> made]
        goback == [result |-> NoObject, back |-> TRUE, screen |-> screen, menu |-> menu, made |-> made]
    IN  CASE screen.class = "MenuScreen" ->
               LET m == IF delta > 0
                        THEN navigate(Len(MainMenuItems), menu.selected_index, menu.scroll_offset, 1)
                        ELSE IF delta < 0
                        THEN navigate(Len(MainMenuItems), menu.selected_index, menu.scroll_offset, 0 - 1)
                        ELSE menu
               IN  IF button = "short_press"
                   THEN LET r == select(MainMenuItems, m.selected_index, made)
                        IN  [result |-> r.result, back |-> FALSE, screen |-> screen,
                             menu |-> m, made |-> r.made]
                   ELSE stay(screen, m)
          [] screen.class = "MatterDevicesScreen" ->
               IF button = "short_press"
               THEN stay([screen EXCEPT !.flag = ~@], menu)
               ELSE IF button = "long_press"
               THEN IF screen.flag THEN stay([screen EXCEPT !.flag = FALSE], menu) ELSE goback
               ELSE stay(screen, menu)
          [] screen.class = "ButtonConfigScreen" ->
               IF ~screen.flag
               THEN IF button = "long_press" THEN goback
                    ELSE stay([screen EXCEPT !.flag = (button = "short_press")], menu)
               ELSE stay([screen EXCEPT !.flag = button \notin {"short_press", "long_press"}],
                         menu)
          [] OTHER ->
               IF button = "long_press" THEN goback ELSE stay(screen, menu)

\* run(): self.screen_stack.append(self.current_screen);
\* self.current_screen = obj
PushScreen(n, obj) ==
    [n EXCEPT !.stack = Append(n.stack, n.current),
              !.current = obj,
              !.last = [kind |-> "push", from_screen |-> n.current, from_stack |-> n.stack,
                        pushed |-> TRUE]]

\* run() on 'back' that takes the top of the stack and leaves it there.
GoBack_NoPop(n) ==
    IF n.stack # <<>>
    THEN [n EXCEPT !.current = n.stack[Len(n.stack)],
                   !.last.kind = IF n.last.pushed THEN "back_after_push" ELSE "back",
                   !.last.pushed = FALSE]
    ELSE [n EXCEPT !.current = NewScreen("MenuScreen", n.made, FALSE),
                   !.made = n.made + 1,
                   !.last.kind = "back_empty",
                   !.last.pushed = FALSE]

\* run() on 'back': pop the stack, or show the main menu when it is empty.
GoBack(n) ==
    IF n.stack # <<>>
    THEN [n EXCEPT !.current = n.stack[Len(n.stack)],
                   !.stack = SubSeq(n.stack, 1, Len(n.stack) - 1),
                   !.last.kind = IF n.last.pushed THEN "back_after_push" ELSE "back",
                   !.last.pushed = FALSE]
    ELSE [n EXCEPT !.current = NewScreen("MenuScreen", n.made, FALSE),
                   !.made = n.made + 1,
                   !.last.kind = "back_empty",
                   !.last.pushed = FALSE]

\* run(): the action a pressed button's handle_button_press returned.
ButtonAction(n, action) ==
    CASE action = "matter_qr" ->
           [PushScreen(n, NewScreen("MatterDevicesScreen", n.made, TRUE)) EXCEPT !.made = n.made + 1]
      [] action = "back" -> GoBack(n)
      [] OTHER -> n

\* run(): handle_input of the current screen and the transition on its
\* result.
EncoderInput(n, delta, button) ==
    LET r == handle_input(n.current, n.menu, n.made, delta, button)
        n1 == [n EXCEPT !.current = r.screen, !.menu = r.menu, !.made = r.made]
    IN  IF r.back THEN GoBack(n1)
        ELSE IF r.result # n1.current THEN PushScreen(n1, r.result)
        ELSE [n1 EXCEPT !.last.kind = "stay"]

\* Depth of the stack and number of screen objects the model follows.
MaxStack == 2

MaxScreens == 4

\* run(): the part of one iteration after the input is read: the button
\* actions, the encoder input, the render of the current screen.  Rendering
\* an object without render raises, and run() ends in its finally block.
RunScreens(action, delta, button) ==
    /\ Running
    /\ LET n0 == [current |-> current_screen, stack |-> screen_stack, menu |-> main_menu,
                  made |-> screens_made, last |-> nav_last]
           n1 == ButtonAction(n0, action)
           n2 == IF delta # 0 \/ button # "none" THEN EncoderInput(n1, delta, button) ELSE n1
       IN  /\ Len(n2.stack) <= MaxStack
           /\ n2.made <= MaxScreens
           /\ current_screen' = n2.current
           /\ screen_stack' = n2.stack
           /\ main_menu' = n2.menu
           /\ screens_made' = n2.made
           /\ nav_last' = n2.last
           /\ pc' = IF IsScreen(n2.current) THEN pc ELSE "shutdown"
    /\ UNCHANGED <<clear_idx, restarts>>
    /\ UNCHANGED <<velVars, armVars, devVars, bmVars, srvVars, wiringVars, unitVars, timeVars, gestureVars, emergVars,
                   flagVars, deltaVars, cfgVars, codecVars>>

(***************************************************************************)
(* MatterServer: the QR payload.  payload_int has more bits than a machine *)
(* integer, so it is a sequence of bits, least significant first.          *)
(***************************************************************************)
\* Width of payload_int: the fields end at bit 83.
PayloadBits == 84

Pow2(k) == 2 ^ k

ZeroBits == [i \in 1..PayloadBits |-> 0]

\* (value & mask) << shift, for a mask of width ones
Field(value, width, shift) ==
    [i \in 1..PayloadBits |->
        IF i - 1 >= shift /\ i - 1 < shift + width
        THEN ((value % Pow2(width)) \div Pow2(i - 1 - shift)) % 2
        ELSE 0]

\* a | b
BitOr(a, b) == [i \in 1..PayloadBits |-> IF a[i] = 1 \/ b[i] = 1 THEN 1 ELSE 0]

\* get_pairing_qr_payload with the discriminator shifted by 44, onto the
\* last bit of the discovery capabilities.
pack_payload_Shift44(version, vendor, product, custom_flow, discovery_caps, disc, passcode) ==
    BitOr(BitOr(BitOr(BitOr(BitOr(BitOr(BitOr(ZeroBits,
        Field(version, 3, 0)),
        Field(vendor, 16, 3)),
        Field(product, 16, 19)),
        Field(custom_flow, 2, 35)),
        Field(discovery_caps, 8, 37)),
        Field(disc, 12, 44)),
        Field(passcode, 27, 57))

\* get_pairing_qr_payload: payload_int after the seven |= statements
pack_payload(version, vendor, product, custom_flow, discovery_caps, disc, passcode) ==
    BitOr(BitOr(BitOr(BitOr(BitOr(BitOr(BitOr(ZeroBits,
        Field(version, 3, 0)),
        Field(vendor, 16, 3)),
        Field(product, 16, 19)),
        Field(custom_flow, 2, 35)),
        Field(discovery_caps, 8, 37)),
        Field(disc, 12, 45)),
        Field(passcode, 27, 57))

\* base38_chars
Base38Chars ==
    <<"0", "1", "2", "3", "4", "5", "6", "7", "8", "9", "A", "B", "C", "D", "E", "F", "G",
      "H", "I", "J", "K", "L", "M", "N", "O", "P", "Q", "R", "S", "T", "U", "V", "W", "X",
      "Y", "Z", "-", ".">>

\* For the division the integer is held in limbs of 14 bits, least
\* significant first.
LimbBase == 2 ^ 14

PayloadLimbs == PayloadBits \div 14

RECURSIVE BitsValue(_, _, _)
\* the bit field of the given width at the given offset
BitsValue(bits, offset, width) ==
    IF width = 0 THEN 0
    ELSE bits[offset + 1] + 2 * BitsValue(bits, offset + 1, width - 1)

ToLimbs(bits) == [j \in 1..PayloadLimbs |-> BitsValue(bits, 14 * (j - 1), 14)]

RECURSIVE DivMod38(_, _, _, _)
\* payload_int // 38 and payload_int % 38 by long division from limb i down
DivMod38(limbs, i, q, r) ==
    IF i = 0 THEN [q |-> q, r |-> r]
    ELSE LET t == r * LimbBase + limbs[i]
         IN  DivMod38(limbs, i - 1, [q EXCEPT ![i] = t \div Len(Base38Chars)],
                      t % Len(Base38Chars))

RECURSIVE ToBase38_LsdFirst(_, _)
\* the loop that appends each digit instead of prepending it
ToBase38_LsdFirst(limbs, base38_str) ==
    IF \A j \in 1..PayloadLimbs : limbs[j] = 0 THEN base38_str
    ELSE LET dm == DivMod38(limbs, PayloadLimbs, limbs, 0)
         IN  ToBase38_LsdFirst(dm.q, base38_str \o <<Base38Chars[dm.r + 1]>>)

RECURSIVE ToBase38(_, _)
\* the loop  while payload_int > 0
ToBase38(limbs, base38_str) ==
    IF \A j \in 1..PayloadLimbs : limbs[j] = 0 THEN base38_str
    ELSE LET dm == DivMod38(limbs, PayloadLimbs, limbs, 0)
         IN  ToBase38(dm.q, <<Base38Chars[dm.r + 1]>> \o base38_str)

\* MatterServer.get_pairing_qr_payload: the string returned (and cached)
get_pairing_qr_payload(cache, vendor, product, disc, pin) ==
    IF cache # <<>>
    THEN cache
    ELSE <<"M", "T", ":">>
         \o ZeroPad(ToBase38(ToLimbs(pack_payload(0, vendor, product, 0, 5, disc, pin)),
                             <<>>), 22)

\* The pairing screen asks the constructed MatterServer for the QR payload.
GetPairingQrPayload ==
    /\ Running
    /\ LET r == get_pairing_qr_payload(qr_payload_cache, vendor_id, product_id,
                                       discriminator, setup_pin)
       IN  /\ qr_result' = [called |-> TRUE, raised |-> FALSE, code |-> r,
                            before |-> qr_result.code,
                            calls |-> Cap(qr_result.calls + 1),
                            vendor_id |-> vendor_id, product_id |-> product_id,
                            discriminator |-> discriminator, setup_pin |-> setup_pin]
           /\ qr_payload_cache' = r
    /\ UNCHANGED <<setup_pin, discriminator, vendor_id, product_id,
                   manual_code_cache, manual_result>>
    /\ UNCHANGED <<extVars, wiringVars, unitVars, timeVars, loopVars, gestureVars, emergVars, flagVars, deltaVars, cfgVars>>

\* Pins and function names the ButtonManager is called with; "bogus" is
\* not a key of BUTTON_FUNCTIONS.
ManagedPins == {BUTTON_PINS[1], BUTTON_PINS[3]}

FunctionNames == {"none", "back", "matter_qr", "bogus"}

\* button_manager.get_button_function(pin)
GetButtonFunction(pin) ==
    /\ Running
    /\ config.loaded
    /\ bm_last' = [bm_last EXCEPT !.op = "get", !.pin = pin, !.function = "none",
                                  !.result = get_button_function(config.ba, pin),
                                  !.before_ba = config.ba, !.before_file = file]
    /\ UNCHANGED <<velVars, armVars, navVars, devVars, srvVars, wiringVars, unitVars, timeVars,
                   loopVars, gestureVars, emergVars, flagVars, deltaVars, cfgVars, codecVars>>

\* button_manager.set_button_function(pin, function): False for a name
\* that is not in BUTTON_FUNCTIONS, else the assignment and save_config.
SetButtonFunction(pin, function) ==
    /\ Running
    /\ config.loaded
    /\ LET ba == set_button_function(config.ba, pin, function)
           valid == \E i \in 1..Len(available_functions) : available_functions[i] = function
           c == [config EXCEPT !.ba = ba]
       IN  /\ config' = c
           /\ default_ba' = IF aliased THEN ba ELSE default_ba
           /\ file' = IF valid THEN save_config(c, file) ELSE file
           /\ bm_last' = [bm_last EXCEPT !.op = "set", !.pin = pin, !.function = function,
                                         !.result = IF valid THEN "True" ELSE "False",
                                         !.before_ba = config.ba, !.before_file = file,
                                         !.assigned = @ \/ valid]
    /\ UNCHANGED <<aliased, reset_done>>
    /\ UNCHANGED <<velVars, armVars, navVars, devVars, srvVars, wiringVars, unitVars, timeVars,
                   loopVars, gestureVars, emergVars, flagVars, deltaVars, codecVars>>

\* save_config(config) and then config = load_config(), with a
\* ButtonManager on the result.
SaveAndLoadConfig ==
    /\ Running
    /\ config.loaded
    /\ LET l == load_config(save_config(config, file), default_ba)
       IN  /\ config' = l.config
           /\ aliased' = l.aliased
           /\ file' = l.file
    /\ bm_last' = [bm_last EXCEPT !.op = "reload", !.reloaded = TRUE,
                                  !.before_ba = config.ba, !.before_file = file]
    /\ UNCHANGED <<default_ba, reset_done>>
    /\ UNCHANGED <<velVars, armVars, navVars, devVars, srvVars, wiringVars, unitVars, timeVars,
                   loopVars, gestureVars, emergVars, flagVars, deltaVars, codecVars>>

\* start(): the checks of enabled and running.
ServerStartBegin ==
    /\ server.start_pc = "begin"
    /\ server' = [server EXCEPT !.start_pc = IF ~server.enabled \/ server.running
                                             THEN "done" ELSE "delay"]
    /\ UNCHANGED <<velVars, armVars, navVars, devVars, bmVars, wiringVars, unitVars, timeVars, loopVars,
                   gestureVars, emergVars, flagVars, deltaVars, cfgVars, codecVars>>

\* start(): time.sleep(0.5) is over.
ServerStartDelay ==
    /\ server.start_pc = "delay"
    /\ server' = [server EXCEPT !.start_pc = "load"]
    /\ UNCHANGED <<velVars, armVars, navVars, devVars, bmVars, wiringVars, unitVars, timeVars, loopVars,
                   gestureVars, emergVars, flagVars, deltaVars, cfgVars, codecVars>>

\* start(): _load_matter_sdk() returns; without the SDK the server is
\* disabled.
ServerLoadSdk(loaded) ==
    /\ server.start_pc = "load"
    /\ server' = IF loaded
                 THEN [server EXCEPT !.start_pc = "launch"]
                 ELSE [server EXCEPT !.start_pc = "done", !.enabled = FALSE]
    /\ UNCHANGED <<velVars, armVars, navVars, devVars, bmVars, wiringVars, unitVars, timeVars, loopVars,
                   gestureVars, emergVars, flagVars, deltaVars, cfgVars, codecVars>>

\* start(): self.running = True
ServerLaunch ==
    /\ server.start_pc = "launch"
    /\ server' = [server EXCEPT !.running = TRUE, !.start_pc = "spawn"]
    /\ UNCHANGED <<velVars, armVars, navVars, devVars, bmVars, wiringVars, unitVars, timeVars, loopVars,
                   gestureVars, emergVars, flagVars, deltaVars, cfgVars, codecVars>>

\* start(): self.server_thread = Thread(target=self._run_server);
\* self.server_thread.start()
ServerSpawn ==
    /\ server.start_pc = "spawn"
    /\ server' = [server EXCEPT !.server_thread = TRUE, !.threads = @ + 1, !.start_pc = "done"]
    /\ UNCHANGED <<velVars, armVars, navVars, devVars, bmVars, wiringVars, unitVars, timeVars, loopVars,
                   gestureVars, emergVars, flagVars, deltaVars, cfgVars, codecVars>>

\* _async_run_server: while self.running fails (or the loop was stopped) and
\* the thread ends.
ServerThreadExit ==
    /\ server.threads > 0
    /\ ~server.running
    /\ server' = [server EXCEPT !.threads = @ - 1]
    /\ UNCHANGED <<velVars, armVars, navVars, devVars, bmVars, wiringVars, unitVars, timeVars, loopVars,
                   gestureVars, emergVars, flagVars, deltaVars, cfgVars, codecVars>>

\* run(): KeyboardInterrupt ends the loop.
Interrupt ==
    /\ Running
    /\ pc' = "shutdown"
    /\ UNCHANGED <<clear_idx, restarts>>
    /\ UNCHANGED <<extVars, wiringVars, unitVars, timeVars, gestureVars, emergVars, flagVars,
                   deltaVars, cfgVars, codecVars>>

\* stop(): return when not running, else self.running = False (and the
\* event loop is told to stop).
stop_begin(srv) ==
    IF ~srv.running
    THEN [srv EXCEPT !.stop_pc = "done", !.returned = TRUE]
    ELSE [srv EXCEPT !.running = FALSE, !.stop_pc = "join"]

\* run(): finally: if hasattr(self, 'matter_server'):
\* self.matter_server.stop()
ServerStopBegin ==
    /\ pc = "shutdown"
    /\ server.stop_pc = "none"
    /\ server.start_pc # "none"
    /\ server' = stop_begin(server)
    /\ UNCHANGED <<velVars, armVars, navVars, devVars, bmVars, wiringVars, unitVars, timeVars, loopVars,
                   gestureVars, emergVars, flagVars, deltaVars, cfgVars, codecVars>>

\* stop(): if self.server_thread: self.server_thread.join(timeout=5); the
\* thread polls running every second, so the join ends with the thread.
ServerStopJoin ==
    /\ server.stop_pc = "join"
    /\ server.server_thread => server.threads = 0
    /\ server' = [server EXCEPT !.stop_pc = "done", !.returned = TRUE]
    /\ UNCHANGED <<velVars, armVars, navVars, devVars, bmVars, wiringVars, unitVars, timeVars, loopVars,
                   gestureVars, emergVars, flagVars, deltaVars, cfgVars, codecVars>>

\* MatterButtonDevice.get_pairing_qr_payload
device_get_pairing_qr_payload(cache, vendor, product, disc, pin) ==
    IF cache # <<>>
    THEN cache
    ELSE <<"M", "T", ":">>
         \o ZeroPad(ToBase38(ToLimbs(pack_payload(0, vendor, product, 0, 5, disc, pin)),
                             <<>>), 22)

\* MatterButtonDevice.get_manual_pairing_code: the setup PIN goes into the
\* code as it is configured.
device_get_manual_pairing_code(cache, disc, pin) ==
    IF cache # <<>>
    THEN [raised |-> FALSE, code |-> cache]
    ELSE LET code_without_check == FormatD(disc, 4) \o FormatD(pin, 8)
             check == calculate_verhoeff(code_without_check)
             full_code == code_without_check \o DecimalOf(check.value)
         IN  IF check.raised
             THEN [raised |-> TRUE, code |-> <<>>]
             ELSE [raised |-> FALSE,
                   code |-> Slice(full_code, 0, 4) \o <<"-">> \o Slice(full_code, 4, 8)
                            \o <<"-">> \o Slice(full_code, 8, 13)]

\* A caller asks the device for its QR payload.
DeviceGetPairingQrPayload ==
    /\ Running
    /\ LET r == device_get_pairing_qr_payload(device.qr_cache, vendor_id, product_id,
                                              discriminator, setup_pin)
       IN  device' = [device EXCEPT !.qr_cache = r, !.qr_called = TRUE, !.qr_code = r]
    /\ UNCHANGED <<velVars, armVars, navVars, srvVars, bmVars, wiringVars, unitVars, timeVars, loopVars,
                   gestureVars, emergVars, flagVars, deltaVars, cfgVars, codecVars>>

\* A caller asks the device for its manual pairing code; a call that raises
\* leaves the device as it was.
DeviceGetManualPairingCode ==
    /\ Running
    /\ LET r == device_get_manual_pairing_code(device.manual_cache, discriminator, setup_pin)
       IN  /\ ~r.raised
           /\ device' = [device EXCEPT !.manual_cache = r.code, !.manual_called = TRUE,
                                       !.manual_code = r.code]
    /\ UNCHANGED <<velVars, armVars, navVars, srvVars, bmVars, wiringVars, unitVars, timeVars, loopVars,
                   gestureVars, emergVars, flagVars, deltaVars, cfgVars, codecVars>>

\* The identity DEFAULT_CONFIG gives the MatterServer
DefaultIdentity ==
    [vendor_id |-> 65521, product_id |-> 32768, discriminator |-> 3840, setup_pin |-> 20202021]

\* Identities a caller assigns to the attributes of the constructed
\* MatterServer.
AssignedIdentities ==
    {DefaultIdentity,
     [DefaultIdentity EXCEPT !.vendor_id = 1],
     [DefaultIdentity EXCEPT !.product_id = 1],
     [DefaultIdentity EXCEPT !.discriminator = 7],
     [DefaultIdentity EXCEPT !.setup_pin = 12345678]}

\* An attribute of the constructed MatterServer (vendor_id, product_id,
\* discriminator or setup_pin) is assigned; the class has no setter and the
\* assignment touches nothing else.
SetIdentity ==
    /\ Running
    /\ \E id \in AssignedIdentities :
        /\ <<id.vendor_id, id.product_id, id.discriminator, id.setup_pin>>
               # <<vendor_id, product_id, discriminator, setup_pin>>
        /\ vendor_id' = id.vendor_id
        /\ product_id' = id.product_id
        /\ discriminator' = id.discriminator
        /\ setup_pin' = id.setup_pin
    /\ UNCHANGED <<manual_code_cache, manual_result, qr_payload_cache, qr_result>>
    /\ UNCHANGED <<extVars, wiringVars, unitVars, timeVars, loopVars, gestureVars, emergVars, flagVars, deltaVars, cfgVars>>

(***************************************************************************)
(* Initial states and specifications                                       *)
(***************************************************************************)
\* Configured setup PINs and discriminators the codec is run on.
SetupPins ==
    {0, 1, 9, 12345678, 20202021, 99999998, 99999999, 100000000, 123456789,
     199999998, 299999997, 0 - 1, 0 - 20202021, 0 - 123456789}

Discriminators == {0, 7, 42, 3840, 4095}

\* A CONFIG_FILE left by an earlier run with changed settings.
StoredChanged ==
    [exists |-> TRUE, auto_refresh |-> FALSE,
     ba |-> Put(ToStrKeys(DEFAULT_BA), StrKey(BUTTON_PINS[1]), "back")]

InitFiles == {NoFile, StoredDefaults, StoredChanged}

\* The wiring dashboard_new gives the InputHandler, with sound hardware
DefaultWiring ==
    [buttons |-> Pins, emergency_reset_buttons |-> EMERGENCY_RESET_BUTTONS, hw_failed |-> NONE]

Wired(w) ==
    /\ buttons = w.buttons
    /\ emergency_reset_buttons = w.emergency_reset_buttons
    /\ hw_failed = w.hw_failed
    /\ fault = NONE
    /\ skipped = {}

NoVerhoeff == [done |-> FALSE, original |-> 0, changed |-> 0]

NoMenuCall == [op |-> "none", direction |-> 0, from |-> 0, from_offset |-> 0, len |-> 0]

\* A new Menu, and no base code under test
InitUnits(code, pos, digit) ==
    /\ vh_code = code
    /\ vh_pos = pos
    /\ vh_digit = digit
    /\ vh_result = NoVerhoeff
    /\ menu_len = 0
    /\ selected_index = 0
    /\ scroll_offset = 0
    /\ menu_last = NoMenuCall

\* Before SmartPanel() with CONFIG_FILE f and the configured identity id
InitProgram(f, id) ==
    /\ now = Epoch
    /\ pc = "init"
    /\ clear_idx = 0
    /\ restarts = 0
    /\ enc_is_pressed = FALSE
    /\ enc_last_state = FALSE
    /\ enc_press_start = NONE
    /\ enc_button_state = "none"
    /\ cyc = NoCycle
    /\ prev = NoCycle
    /\ sess = NoSession
    /\ btn_is_pressed = AllFalse
    /\ emergency_reset_start = NONE
    /\ reset_status = "none"
    /\ reset_progress = 0
    /\ hold = NoHold
    /\ button_states = AllFalse
    /\ states = AllFalse
    /\ edges = NoEdges
    /\ enc_steps = 0
    /\ enc_delta = 0
    /\ produced = 0
    /\ returned = 0
    /\ step_events = 0
    /\ default_ba = DEFAULT_BA
    /\ config = NoConfig
    /\ aliased = FALSE
    /\ file = f
    /\ reset_done = FALSE
    /\ setup_pin = id.setup_pin
    /\ discriminator = id.discriminator
    /\ manual_code_cache = <<>>
    /\ manual_result = NotCalled
    /\ vendor_id = id.vendor_id
    /\ product_id = id.product_id
    /\ qr_payload_cache = <<>>
    /\ qr_result = NotCalled
    /\ enc_velocity = ZeroVelocity
    /\ last_enc_time = NONE
    /\ vel_last = NoDeltaCall
    /\ arm = NoArming
    /\ current_screen = FirstScreen
    /\ screen_stack = <<>>
    /\ main_menu = MenuTop
    /\ screens_made = 1
    /\ nav_last = NoNavigation
    /\ device = NewDevice
    /\ server = NoServer
    /\ bm_last = NoManagerCall

InitWith(f, id) == InitProgram(f, id) /\ Wired(DefaultWiring) /\ InitUnits(<<>>, 0, "0")

InitState(f, pin, disc) ==
    InitWith(f, [DefaultIdentity EXCEPT !.setup_pin = pin, !.discriminator = disc])

Init == InitState(NoFile, 20202021, 3840)

InitConfig == \E f \in InitFiles : InitState(f, 20202021, 3840)

InitCodec == \E pin \in SetupPins, disc \in Discriminators : InitState(NoFile, pin, disc)

GestureHorizon == Epoch + long_press_threshold + Quantum

EmergencyHorizon == Epoch + EMERGENCY_RESET_DURATION + LateTicks * Quantum

MainLoop ==
    \/ Startup
    \/ RunCheck
    \/ RunDeltaRead
    \/ RunDeltaReset
    \/ RunEncButton
    \/ RunButtonsCopy
    \/ RunButtonsClear
    \/ RunDispatch

\* The encoder push button under the main loop.
NextGesture == MainLoop \/ EncButtonDown \/ EncButtonUp \/ Advance(GestureHorizon)

\* The emergency combo under the main loop.
NextEmergency ==
    \/ MainLoop
    \/ EmergencyReset
    \/ \E p \in Pressable : ButtonDown(p)
    \/ \E p \in Pressable : ButtonUp(p)
    \/ Advance(EmergencyHorizon)

\* The press callbacks against the main loop.
NextFlags == MainLoop \/ \E p \in EdgePins : ButtonPressedCallback(p)

\* The encoder's counting thread against the main loop.
NextDelta == MainLoop \/ \E d \in {0 - 1, 1} : EncoderStep(d)

\* Settings changes, button assignments and the emergency reset; the hold
\* is given up by releasing B1.
NextConfig ==
    \/ MainLoop
    \/ RunDispatchSettings
    \/ \E i \in 1..CfgButtons : RunDispatchButtonConfig(BUTTON_PINS[i])
    \/ EmergencyReset
    \/ \E p \in EMERGENCY_RESET_BUTTONS : ButtonDown(p)
    \/ ButtonUp(BUTTON_PINS[1])
    \/ AdvanceCoarse(EmergencyHorizon)

NextCodec == Startup \/ GetManualPairingCode

\* Identities the QR payload is built for.
VendorIds == {0, 1, 65521, 65535}

ProductIds == {0, 32768, 65535}

Passcodes == {1, 20202021, 99999998, 134217727}

InitQr ==
    \E v \in VendorIds, p \in ProductIds, disc \in Discriminators, pin \in Passcodes :
        InitWith(NoFile, [vendor_id |-> v, product_id |-> p,
                          discriminator |-> disc, setup_pin |-> pin])

NextQr == Startup \/ GetPairingQrPayload

\* Identities with fields inside and outside their widths, as the
\* configuration can hold them.
InitQrAny ==
    \E v \in {65521, 65536 + 7, 0 - 1},
       p \in {32768, 3 * 65536 + 1},
       disc \in {3840, 4096 + 5, 0 - 1},
       pin \in {0, 20202021, 100000000, 134217727, 134217728 + 9, 0 - 1} :
        InitWith(NoFile, [vendor_id |-> v, product_id |-> p,
                          discriminator |-> disc, setup_pin |-> pin])

SpecQrAny == InitQrAny /\ [][NextQr]_vars

\* Both pairing strings of one identity.
NextPairing == Startup \/ GetManualPairingCode \/ GetPairingQrPayload

SpecPairing == InitCodec /\ [][NextPairing]_vars

Next == NextGesture

Spec == Init /\ [][Next]_vars

SpecGesture == Init /\ [][NextGesture]_vars

SpecEmergency == Init /\ [][NextEmergency]_vars

SpecFlags == Init /\ [][NextFlags]_vars

SpecDelta == Init /\ [][NextDelta]_vars

SpecConfig == InitConfig /\ [][NextConfig]_vars

SpecCodec == InitCodec /\ [][NextCodec]_vars

SpecQr == InitQr /\ [][NextQr]_vars

\* One device of InputHandler.__init__ may fail to initialize.
InitFail ==
    \E ch \in {NONE, ENC_A, ENC_PUSH} \cup Pins :
        /\ InitProgram(NoFile, DefaultIdentity)
        /\ Wired([DefaultWiring EXCEPT !.hw_failed = ch])
        /\ InitUnits(<<>>, 0, "0")

SpecInitFail == InitFail /\ [][NextFlags]_vars

\* The main loop with the combo buttons and a channel whose read raises.
NextFault ==
    \/ MainLoop
    \/ RunRaise
    \/ \E ch \in {ENC_A, ENC_PUSH} \cup Pins : SetFault(ch)
    \/ \E p \in EMERGENCY_RESET_BUTTONS : ButtonDown(p) \/ ButtonUp(p)

SpecFault == Init /\ [][NextFault]_vars

\* Sampled buttons and required pins InputHandler is constructed with: the
\* shipped ones, a required pin that is no sampled button, one required
\* pin, none.
Wirings ==
    {[DefaultWiring EXCEPT !.buttons = b] : b \in {Pins, Pins \ {21}, Pins \ {5, 21}}}
    \cup {[DefaultWiring EXCEPT !.emergency_reset_buttons = r] : r \in {{5, 13}, {5}, {}}}

InitCombo ==
    \E w \in Wirings :
        /\ InitProgram(NoFile, DefaultIdentity)
        /\ Wired(w)
        /\ InitUnits(<<>>, 0, "0")

\* Pins whose level changes under these wirings: 5 and 21, required or
\* not, sampled or not.
ComboPressable == EMERGENCY_RESET_BUTTONS

NextCombo ==
    \/ MainLoop
    \/ EmergencyReset
    \/ \E p \in ComboPressable : ButtonDown(p)
    \/ \E p \in ComboPressable : ButtonUp(p)
    \/ Advance(EmergencyHorizon)

SpecCombo == InitCombo /\ [][NextCombo]_vars

\* The encoder turning while time passes, under the main loop.
VelocityHorizon == Epoch + long_press_threshold

NextVelocity == MainLoop \/ (\E d \in {0 - 1, 1} : EncoderStep(d)) \/ Advance(VelocityHorizon)

SpecVelocity == Init /\ [][NextVelocity]_vars

\* Presses of the combo buttons and encoder steps against the main loop; the
\* hold is cancelled by releasing B1.
NextArming ==
    \/ MainLoop
    \/ \E p \in EMERGENCY_RESET_BUTTONS : ButtonPressEdge(p)
    \/ ButtonUp(BUTTON_PINS[1])
    \/ EncoderStep(1)

SpecArming == Init /\ [][NextArming]_vars

\* The screens under button actions and encoder input.
NextScreens ==
    \/ Startup
    \/ \E action \in {"none", "matter_qr", "back"}, delta \in {0 - 1, 0, 1},
          button \in {"none", "pressed", "short_press", "long_press"} :
             RunScreens(action, delta, button)

SpecScreens == Init /\ [][NextScreens]_vars

\* The two implementations of the commissioning strings, side by side.
NextDevice ==
    \/ Startup
    \/ GetManualPairingCode
    \/ GetPairingQrPayload
    \/ DeviceGetManualPairingCode
    \/ DeviceGetPairingQrPayload

SpecDevice == InitCodec /\ [][NextDevice]_vars

\* MatterServer's start thread, its server thread and stop() under the
\* main loop.
NextServer ==
    \/ MainLoop
    \/ Interrupt
    \/ ServerStartBegin
    \/ ServerStartDelay
    \/ \E loaded \in BOOLEAN : ServerLoadSdk(loaded)
    \/ ServerLaunch
    \/ ServerSpawn
    \/ ServerThreadExit
    \/ ServerStopBegin
    \/ ServerStopJoin

SpecServer == Init /\ [][NextServer]_vars

\* Calls of the ButtonManager on the loaded configuration.
NextButtons ==
    \/ Startup
    \/ \E pin \in ManagedPins : GetButtonFunction(pin)
    \/ \E pin \in ManagedPins, function \in FunctionNames : SetButtonFunction(pin, function)
    \/ SaveAndLoadConfig

SpecButtons == Init /\ [][NextButtons]_vars

NextMenu ==
    \/ MenuAddItem
    \/ \E direction \in {0 - 1, 1} : MenuNavigate(direction)
    \/ MenuGetVisibleItems

SpecMenu == Init /\ [][NextMenu]_vars

NextIdentity == Startup \/ GetManualPairingCode \/ GetPairingQrPayload \/ SetIdentity

SpecIdentity == Init /\ [][NextIdentity]_vars

\* Base codes _calculate_verhoeff is run on: discriminator and passcode as
\* get_manual_pairing_code joins them.
BaseCodes ==
    {FormatD(d, 4) \o FormatD(p, 8) :
        d \in Discriminators, p \in {1, 12345678, 20202021, 99999999}}

InitVerhoeff ==
    \E code \in BaseCodes, pos \in 1..12, k \in 1..10 :
        /\ code[pos] # DigitChars[k]
        /\ InitProgram(NoFile, DefaultIdentity)
        /\ Wired(DefaultWiring)
        /\ InitUnits(code, pos, DigitChars[k])

NextVerhoeff == Startup \/ VerhoeffCompare

SpecVerhoeff == InitVerhoeff /\ [][NextVerhoeff]_vars

(***************************************************************************)
(* Encoder push button: C1, C2, C3                                         *)
(***************************************************************************)
Classified(c) == c.shorts + c.longs

\* C1 as claimed: every physical press-release cycle of the encoder button,
\* closed by the next press, has yielded exactly one of 'short_press' and
\* 'long_press' over the ticks the main loop ran in it.
C1_EveryPhysicalCycleClassifiedOnce ==
    prev.exists => Classified(prev) = 1

\* C1 as amended: a physical press-release cycle that the poll loop samples
\* (a tick finds the level active with the classifier idle and returns
\* 'pressed', and a tick finds the level inactive before the next press)
\* yields exactly one of 'short_press' and 'long_press', never both; while
\* such a cycle is still running it has yielded at most one.
C1_SampledCycleClassifiedOnce ==
    /\ (prev.exists /\ prev.pressedSeen /\ prev.releaseSeen) => Classified(prev) = 1
    /\ (cyc.exists /\ cyc.pressedSeen /\ cyc.releaseSeen) => Classified(cyc) = 1
    /\ (cyc.exists /\ cyc.pressedSeen) => Classified(cyc) <= 1

\* A sampled cycle was closed by the next press, with its one short press.
C1_Witness ==
    prev.exists /\ prev.pressedSeen /\ prev.releaseSeen /\ prev.shorts = 1 /\ prev.longs = 0

\* C2: a press that the classifier sees held for at least the threshold
\* (one of its ticks, the release tick included, comes at least
\* long_press_threshold after the tick that returned 'pressed') yields
\* exactly one 'long_press' and no 'short_press': 'long_press' is returned
\* on one tick only, later ticks of the hold return 'none', and the release
\* tick after a returned long press returns 'none'.
C2_LongPressExactlyOnce ==
    /\ sess.reached => (sess.longs = 1 /\ sess.shorts = 0)
    /\ sess.longs <= 1
    /\ sess.relAfterLong \in {"n/a", "none"}
    /\ (pc = "buttons_copy" /\ enc_button_state = "long_press") => sess.reached

\* A long press was returned during the hold and the release tick that
\* followed returned 'none'.
C2_Witness ==
    sess.reached /\ ~sess.open /\ sess.longs = 1 /\ sess.relAfterLong = "none"

\* C3 as claimed: a press physically held for less than the threshold and
\* then released (sampled at its press and at its release) yields exactly
\* one 'short_press' and no 'long_press' wherever the ticks fall, and a
\* release observed while no long press has been returned yet never returns
\* 'long_press'.
C3_ShortHoldNeverLong ==
    /\ (cyc.exists /\ cyc.downAt = NONE /\ cyc.physShort
        /\ cyc.pressedSeen /\ cyc.releaseSeen)
       => (cyc.shorts = 1 /\ cyc.longs = 0)
    /\ sess.relFromDown # "long_press"

\* C3 as amended: a press whose release tick comes less than
\* long_press_threshold after the tick that returned 'pressed' yields
\* exactly one 'short_press' and no 'long_press'; a release observed with
\* no long press returned yet returns 'long_press' exactly when that
\* elapsed time is at least the threshold.
C3_ShortWhenReleaseTickEarly ==
    /\ (~sess.open /\ sess.pressed >= 1 /\ ~sess.reached)
       => (sess.shorts = 1 /\ sess.longs = 0)
    /\ (sess.open /\ ~sess.reached) => (sess.shorts = 0 /\ sess.longs = 0)
    /\ sess.relFromDown = "long_press" => sess.reached
    /\ sess.relFromDown = "short_press" => ~sess.reached

\* A press was released before the threshold and classified short.
C3_Witness ==
    ~sess.open /\ sess.pressed = 1 /\ ~sess.reached /\ sess.shorts = 1
    /\ sess.relFromDown = "short_press"

(***************************************************************************)
(* Emergency combo: C4, C5                                                 *)
(***************************************************************************)
\* C4: while the combo stays held, ('triggered', 100) is reported exactly
\* once per hold: on the first tick whose elapsed time since the hold's
\* first tick is at least EMERGENCY_RESET_DURATION and on no other tick
\* (the main loop leaves for _emergency_reset on it), and the monitor keeps
\* its start timestamp after triggering.
C4_TriggeredExactlyOnce ==
    /\ hold.trig = hold.ge
    /\ hold.trig <= 1
    /\ reset_status = "triggered" <=> hold.trig = 1
    /\ hold.trig = 1 =>
          /\ pc = "emergency_reset"
          /\ reset_progress = 100
          /\ emergency_reset_start = hold.armed_at
          /\ emergency_reset_start # NONE

\* The combo was held for the whole duration and the tick reported it.
C4_Witness ==
    hold.trig = 1 /\ pc = "emergency_reset" /\ reset_status = "triggered"

Range(seq) == {seq[i] : i \in 1..Len(seq)}

\* C5: a tick that finds not all required channels active reports
\* ('none', 0), forgets the start timestamp, and that hold never reports
\* 'triggered'; the first tick of a later hold reports ('active', 0) with
\* the time of that tick as start; 'triggered' is only reported when the
\* current hold alone lasted the duration (no partial credit).  Both held
\* from the start and one released Quantum before the duration: the
\* statuses are none, active, none.
C5_LevelTriggeredCancel ==
    /\ (hold.last_check # NONE /\ ~hold.last_all) =>
          /\ reset_status = "none"
          /\ reset_progress = 0
          /\ emergency_reset_start = NONE
          /\ hold.trig = 0
    /\ hold.first =>
          /\ reset_status = "active"
          /\ reset_progress = 0
          /\ emergency_reset_start = hold.last_check
    /\ reset_status = "triggered" =>
          hold.last_check - hold.armed_at >= EMERGENCY_RESET_DURATION
    /\ "triggered" \in Range(hold.trace) => hold.trig = 1
    /\ (hold.cancel_el # NONE /\ hold.cancel_el < EMERGENCY_RESET_DURATION
        /\ Len(hold.trace) = 3 /\ hold.trace[2] = "active" /\ ~hold.last_all)
       => hold.trace = <<"none", "active", "none">>

\* Armed at the first instant, cancelled Quantum before the duration.
C5_Witness ==
    /\ hold.trace = <<"none", "active", "none">>
    /\ hold.cancel_el = EMERGENCY_RESET_DURATION - Quantum
    /\ now = Epoch + EMERGENCY_RESET_DURATION - Quantum
    /\ reset_status = "none"

(***************************************************************************)
(* Latched button edges and the encoder counter: C6, C7, C8                *)
(***************************************************************************)
\* C6: a press edge signalled by the callback is never lost: an edge that
\* no get_button_states call has reported yet is still latched in its flag.
C6_EdgeNeverLost ==
    \A p \in Pins : edges.unreported[p] => button_states[p]

\* C7: a call reports a pin true only when an edge arrived on it since the
\* previous call (no edge is reported twice), however many edges arrived
\* they are one true; a flag is true only if an edge arrived after it was
\* last cleared; the returned map has an entry for every configured pin.
C7_NoDuplicateReports ==
    /\ DOMAIN states = Pins
    /\ \A p \in Pins : states[p] \in BOOLEAN
    /\ pc \in {"buttons_clear", "dispatch"} =>
          \A p \in Pins : states[p] => edges.at_copy[p] >= 1
    /\ \A p \in Pins : button_states[p] => edges.since_clear[p] >= 1

\* Two edges on one pin between two calls were reported as one true.
C7_Witness ==
    /\ pc = "buttons_clear"
    /\ \E p \in Pins : states[p] /\ edges.at_copy[p] = 2

\* C8: the deltas returned so far plus the counter equal the steps the
\* encoder produced, whenever the steps arrive.
C8_DrainLosesNoStep ==
    returned + enc_steps = produced

(***************************************************************************)
(* Emergency reset of the configuration: C9                                *)
(***************************************************************************)
\* C9: once the main loop has run the emergency reset, the process has been
\* restarted and CONFIG_FILE holds the defaults, whatever settings and
\* button assignments were changed before.
C9_ResetRestoresDefaults ==
    (reset_done /\ pc = "init") => (restarts >= 1 /\ file = StoredDefaults)

(***************************************************************************)
(* Manual pairing code: C10                                                *)
(***************************************************************************)
RECURSIVE ValueOf(_)
\* int(str) of a string of digits
ValueOf(str) ==
    IF Len(str) = 0 THEN 0
    ELSE 10 * ValueOf(SubSeq(str, 1, Len(str) - 1)) + CharVal(str[Len(str)])

\* 13 digits in groups of 4, 4 and 5
WellFormedManualCode(code) ==
    /\ Len(code) = 15
    /\ code[5] = "-"
    /\ code[10] = "-"
    /\ \A i \in (1..15) \ {5, 10} : IsDigit(code[i])

PasscodePart(code) == ValueOf(SubSeq(code, 6, 9) \o SubSeq(code, 11, 14))

\* C10: for every configured setup PIN get_manual_pairing_code returns a
\* 13-digit 4-4-5 code whose passcode part is in 1..99,999,999: the PIN
\* itself, the default for 0, the PIN modulo 99,999,999 above 99,999,999,
\* the default again when that is 0.
C10_ManualCodeAlwaysValid ==
    manual_result.called =>
        /\ ~manual_result.raised
        /\ WellFormedManualCode(manual_result.code)
        /\ PasscodePart(manual_result.code) \in 1..99999999
        /\ setup_pin \in 1..99999999 => PasscodePart(manual_result.code) = setup_pin
        /\ setup_pin = 0 => PasscodePart(manual_result.code) = 20202021
        /\ setup_pin > 99999999 =>
              PasscodePart(manual_result.code) =
                  (IF setup_pin % 99999999 = 0 THEN 20202021 ELSE setup_pin % 99999999)

(***************************************************************************)
(* Manual pairing code, format and determinism: C11                        *)
(***************************************************************************)
\* the 13 digits of a grouped code
CodeDigits(code) == SubSeq(code, 1, 4) \o SubSeq(code, 6, 9) \o SubSeq(code, 11, 15)

RECURSIVE VerhoeffCheckFold(_, _, _)
\* Verhoeff validation of a digit string that ends in its check digit: the
\* digits from the right, the i-th through row i mod 8 of the permutation
\* table.
VerhoeffCheckFold(num_str, i, c) ==
    IF i >= Len(num_str) THEN c
    ELSE VerhoeffCheckFold(num_str, i + 1,
            VerhoeffD[c + 1][VerhoeffP[(i % 8) + 1][CharVal(num_str[Len(num_str) - i]) + 1] + 1])

VerhoeffValidates(num_str) == VerhoeffCheckFold(num_str, 0, 0) = 0

DecodeLimbs == PayloadLimbs + 3

\* index of a base-38 character, from 0
Base38Val(ch) == (CHOOSE k \in 1..Len(Base38Chars) : Base38Chars[k] = ch) - 1

RECURSIVE MulAdd38(_, _, _, _)
\* limbs * 38 + carry, from limb i up
MulAdd38(limbs, i, carry, out) ==
    IF i > DecodeLimbs THEN out
    ELSE LET t == limbs[i] * 38 + carry
         IN  MulAdd38(limbs, i + 1, t \div LimbBase, [out EXCEPT ![i] = t % LimbBase])

RECURSIVE FromBase38(_, _, _)
\* the integer a base-38 string stands for, most significant character first
FromBase38(str, k, limbs) ==
    IF k > Len(str) THEN limbs
    ELSE LET next == MulAdd38(limbs, 1, Base38Val(str[k]), limbs)
         IN  IF next[1] >= 0 THEN FromBase38(str, k + 1, next) ELSE next

\* the bits of the integer the 22 characters after MT: stand for
DecodedQr(code) ==
    LET limbs == FromBase38(SubSeq(code, 4, Len(code)), 1, [j \in 1..DecodeLimbs |-> 0])
    IN  [i \in 1..(14 * DecodeLimbs) |-> (limbs[((i - 1) \div 14) + 1] \div Pow2((i - 1) % 14)) % 2]

\* C12: the payload is MT: and 22 base-38 characters; decoding them to an
\* integer and taking the bit fields at offsets 0, 3, 19, 35, 37, 45, 57
\* gives version 0, the vendor id, the product id, custom flow 0, discovery
\* capabilities 5, the discriminator and the passcode of the identity, when
\* its fields are in range.
C12_QrRoundTrip ==
    (qr_result.called
     /\ qr_result.vendor_id \in 0..65535 /\ qr_result.product_id \in 0..65535
     /\ qr_result.discriminator \in 0..4095 /\ qr_result.setup_pin \in 0..134217727) =>
        /\ Len(qr_result.code) = 25
        /\ SubSeq(qr_result.code, 1, 3) = <<"M", "T", ":">>
        /\ \A k \in 4..25 : \E j \in 1..Len(Base38Chars) : Base38Chars[j] = qr_result.code[k]
        /\ LET bits == DecodedQr(qr_result.code)
           IN  /\ BitsValue(bits, 0, 3) = 0
               /\ BitsValue(bits, 3, 16) = qr_result.vendor_id
               /\ BitsValue(bits, 19, 16) = qr_result.product_id
               /\ BitsValue(bits, 35, 2) = 0
               /\ BitsValue(bits, 37, 8) = 5
               /\ BitsValue(bits, 45, 12) = qr_result.discriminator
               /\ BitsValue(bits, 57, 27) = qr_result.setup_pin
               /\ \A i \in (PayloadBits + 1)..(14 * DecodeLimbs) : bits[i] = 0

\* The payload of the default identity, as the Python code returns it.
C12_Witness ==
    /\ qr_result.called
    /\ qr_result.vendor_id = 65521 /\ qr_result.product_id = 32768
    /\ qr_result.discriminator = 3840 /\ qr_result.setup_pin = 20202021
    /\ qr_result.code = <<"M", "T", ":", "0", "0", "0", "0", "0", "0", "5", "W", "F", "7",
                          "7", "J", "6", "U", "3", "2", "I", "R", "2", "Q", "B", "U">>

(***************************************************************************)
(* Verhoeff check digit: C13                                               *)
(***************************************************************************)
\* C13: replacing one digit of a 12-digit base code by a different digit
\* changes the check digit _calculate_verhoeff computes; the check digit of
\* the base code is the one with which base code and digit pass Verhoeff
\* validation, and the changed code with that digit does not pass.
C13_SingleDigitErrorDetected ==
    vh_result.done =>
        /\ Len(vh_code) = 12
        /\ vh_result.original \in 0..9
        /\ vh_result.changed \in 0..9
        /\ vh_result.original # vh_result.changed
        /\ VerhoeffValidates(Append(vh_code, DigitChars[vh_result.original + 1]))
        /\ ~VerhoeffValidates(Append(ReplaceAt(vh_code, vh_pos, vh_digit),
                                     DigitChars[vh_result.original + 1]))

\* The leftmost digit of 384020202021 was replaced by 9 and the check digit
\* moved away from 4.
C13_Witness ==
    /\ vh_result.done
    /\ vh_code = <<"3", "8", "4", "0", "2", "0", "2", "0", "2", "0", "2", "1">>
    /\ vh_pos = 1
    /\ vh_digit = "9"
    /\ vh_result.original = 4
    /\ vh_result.changed # 4

(***************************************************************************)
(* Memoized pairing strings and the identity: C14                          *)
(***************************************************************************)
\* C14: the string a call of get_manual_pairing_code or
\* get_pairing_qr_payload returns is the one computed from the identity
\* the object has at that call, also after the identity was changed.
C14_CacheFollowsIdentity ==
    /\ manual_result.called =>
           manual_result.code =
               get_manual_pairing_code(<<>>, manual_result.discriminator,
                                       manual_result.setup_pin).code
    /\ qr_result.called =>
           qr_result.code =
               get_pairing_qr_payload(<<>>, qr_result.vendor_id, qr_result.product_id,
                                      qr_result.discriminator, qr_result.setup_pin)

(***************************************************************************)
(* Failures of the input hardware: C15, C16                                *)
(***************************************************************************)
\* C15: when one input device fails to initialize, construction still
\* completes and the failed channel is not among the sampled buttons.
C15_InitFailureIsolated ==
    (hw_failed # NONE /\ pc # "init") =>
        /\ pc # "crashed"
        /\ hw_failed \notin buttons

\* C16: when the read of one channel raises, no other channel of that tick
\* is left unread.
C16_ReadFaultIsolated ==
    pc = "shutdown" => skipped = {}

(***************************************************************************)
(* Menu navigation: C17                                                    *)
(***************************************************************************)
\* C17: on a non-empty menu the selection is an index of an item and lies
\* in the window of six items that starts at scroll_offset; navigate moves
\* the selection by one and stops at both ends without wrapping; navigate
\* on an empty menu changes nothing; navigate(1) from index 0 of a menu
\* of two items selects index 1.
C17_MenuSelectionInRange ==
    /\ menu_len > 0 =>
          /\ 0 <= selected_index
          /\ selected_index <= menu_len - 1
          /\ scroll_offset <= selected_index
          /\ selected_index < scroll_offset + 6
    /\ (menu_last.op = "navigate" /\ menu_last.len > 0) =>
          LET target == menu_last.from + menu_last.direction
          IN  /\ target < 0 => selected_index = 0
              /\ target > menu_last.len - 1 => selected_index = menu_last.len - 1
              /\ target \in 0..(menu_last.len - 1) => selected_index = target
    /\ (menu_last.op = "navigate" /\ menu_last.len = 0) =>
          /\ menu_len = 0
          /\ selected_index = menu_last.from
          /\ scroll_offset = menu_last.from_offset
    /\ (menu_last.op = "navigate" /\ menu_last.len = 2
            /\ menu_last.from = 0 /\ menu_last.direction = 1) =>
          selected_index = 1

\* navigate(1) on the last of eight items: the selection stays on index 7
\* and the window starts at index 2.
C17_Witness ==
    /\ menu_last.op = "navigate"
    /\ menu_last.direction = 1
    /\ menu_last.len = 8
    /\ menu_last.from = 7
    /\ selected_index = 7
    /\ scroll_offset = 2

(***************************************************************************)
(* Emergency combo, arming and progress: C18                               *)
(***************************************************************************)
\* C18: the tick that first finds the combo held records its time as the
\* start and reports ('active', 0); a later tick of the same hold that
\* comes less than the duration after the start reports 'active' with
\* the whole percent floor(100 * elapsed / duration), which is in 0..100,
\* elapsed counted from the recorded start.
C18_ArmingProgress ==
    /\ (hold.last_all /\ hold.first) =>
          /\ reset_status = "active"
          /\ reset_progress = 0
          /\ emergency_reset_start = hold.last_check
          /\ hold.armed_at = hold.last_check
    /\ (hold.last_all /\ ~hold.first
            /\ hold.last_check - hold.armed_at < EMERGENCY_RESET_DURATION) =>
          LET elapsed == hold.last_check - hold.armed_at
          IN  /\ reset_status = "active"
              /\ emergency_reset_start = hold.armed_at
              /\ reset_progress \in 0..100
              /\ reset_progress * EMERGENCY_RESET_DURATION <= 100 * elapsed
              /\ 100 * elapsed < (reset_progress + 1) * EMERGENCY_RESET_DURATION

\* A later tick of a hold reports 98 percent at an elapsed time that is
\* not a whole number of percents.
C18_Witness ==
    /\ hold.last_all
    /\ ~hold.first
    /\ reset_status = "active"
    /\ reset_progress = 98
    /\ (100 * (hold.last_check - hold.armed_at)) % EMERGENCY_RESET_DURATION # 0

(***************************************************************************)
(* Encoder button, the 'pressed' acknowledgment: C19                       *)
(***************************************************************************)
\* C19: 'pressed' is returned once per press as the classifier follows it,
\* by the tick that finds the level active while enc_last_state is False;
\* that tick stores its time in enc_press_start; while the button stays
\* held no later tick returns 'pressed', also after 'long_press' was
\* returned; no physical press gets more than one 'pressed'.
C19_PressedOncePerCycle ==
    /\ sess.open = enc_last_state
    /\ sess.open => sess.pressed = 1
    /\ sess.pressed <= 1
    /\ (pc = "buttons_copy" /\ enc_button_state = "pressed") =>
          /\ sess.open
          /\ sess.shorts = 0
          /\ sess.longs = 0
          /\ enc_press_start = sess.start
          /\ enc_press_start # NONE
    /\ cyc.presses <= 1
    /\ prev.presses <= 1

\* The button is still held after its long press was returned, a later
\* tick of the hold returned 'none', and the press has its one 'pressed'.
C19_Witness ==
    /\ sess.open
    /\ enc_is_pressed
    /\ sess.longs = 1
    /\ sess.pressed = 1
    /\ enc_press_start = NONE
    /\ pc = "buttons_copy"
    /\ enc_button_state = "none"

(***************************************************************************)
(* Emergency combo and the sampled buttons: C20                            *)
(***************************************************************************)
\* C20: while a required pin is not one of the sampled buttons the status
\* is never 'active' or 'triggered' and no start is recorded, whatever the
\* levels; with a non-empty required set, a tick reports 'active' or
\* 'triggered' only if every required pin is a sampled button whose level
\* is active at that tick.
C20_ComboNeedsEveryRequiredChannel ==
    /\ []((\E pin \in emergency_reset_buttons : pin \notin buttons) =>
            /\ reset_status = "none"
            /\ emergency_reset_start = NONE
            /\ pc # "emergency_reset")
    /\ [][(/\ pc = "check"
           /\ emergency_reset_buttons # {}
           /\ btn_is_pressed' = btn_is_pressed
           /\ now' = now
           /\ reset_status' \in {"active", "triggered"})
          => (\A pin \in emergency_reset_buttons : pin \in buttons /\ btn_is_pressed[pin])]_vars

\* Pin 21 is required but not sampled; the levels of pins 5 and 21 are
\* active and a tick ran at least 100 ms ago with them active.
C20_Witness ==
    /\ emergency_reset_buttons = {5, 21}
    /\ buttons = Pins \ {21}
    /\ btn_is_pressed[5]
    /\ btn_is_pressed[21]
    /\ hold.last_check # NONE
    /\ now >= hold.last_check + 100
    /\ pc = "delta_read"

(***************************************************************************)
(* Encoder velocity: C21                                                   *)
(***************************************************************************)
\* C21: a get_encoder_delta call that returns 0 leaves enc_velocity and
\* last_enc_time as they were, so is_fast_scroll answers as before; a call
\* that returns delta # 0 a positive time after last_enc_time sets
\* enc_velocity to abs(delta) / elapsed and last_enc_time to its own time,
\* and is_fast_scroll is true exactly when that quotient exceeds 5 steps
\* per second.
C21_VelocityTracking ==
    vel_last.called =>
        LET elapsed == vel_last.at - vel_last.before_time
        IN  /\ vel_last.delta = 0 =>
                  /\ enc_velocity = vel_last.before_velocity
                  /\ last_enc_time = vel_last.before_time
                  /\ is_fast_scroll(enc_velocity) = is_fast_scroll(vel_last.before_velocity)
            /\ (vel_last.delta # 0 /\ elapsed > 0) =>
                  /\ enc_velocity.den > 0
                  /\ enc_velocity.num * elapsed = Abs(vel_last.delta) * 1000 * enc_velocity.den
                  /\ last_enc_time = vel_last.at
                  /\ is_fast_scroll(enc_velocity) = (Abs(vel_last.delta) * 1000 > 5 * elapsed)

\* Two steps were read 400 ms after last_enc_time: exactly 5 steps per
\* second, not a fast scroll; the next read returned 0 and kept that.
C21_Witness ==
    /\ vel_last.called
    /\ vel_last.delta = 0
    /\ now > last_enc_time
    /\ enc_velocity = [num |-> 2000, den |-> 400]
    /\ ~is_fast_scroll(enc_velocity)

(***************************************************************************)
(* QR payload, the format: C22                                             *)
(***************************************************************************)
\* C22: for every identity, fields outside their widths included, the
\* payload is MT: followed by exactly 22 characters of the base-38
\* alphabet, 25 characters in all, and read most significant digit first
\* they are the integer with version 0 at bit 0, the vendor id at bit 3,
\* the product id at bit 19, custom flow 0 at bit 35, discovery
\* capabilities 5 at bit 37, the discriminator at bit 45 and the passcode
\* at bit 57, each field reduced to its width of 3, 16, 16, 2, 8, 12 and
\* 27 bits, and nothing above bit 83.
C22_QrPayloadFormat ==
    qr_result.called =>
        /\ Len(qr_result.code) = 25
        /\ SubSeq(qr_result.code, 1, 3) = <<"M", "T", ":">>
        /\ \A k \in 4..25 : \E j \in 1..38 : Base38Chars[j] = qr_result.code[k]
        /\ LET bits == DecodedQr(qr_result.code)
           IN  /\ BitsValue(bits, 0, 3) = 0
               /\ BitsValue(bits, 3, 16) = qr_result.vendor_id % 65536
               /\ BitsValue(bits, 19, 16) = qr_result.product_id % 65536
               /\ BitsValue(bits, 35, 2) = 0
               /\ BitsValue(bits, 37, 8) = 5
               /\ BitsValue(bits, 45, 12) = qr_result.discriminator % 4096
               /\ BitsValue(bits, 57, 27) = qr_result.setup_pin % 134217728
               /\ \A i \in 85..(14 * DecodeLimbs) : bits[i] = 0

\* An identity with every field outside its width got the payload the
\* Python code returns for it.
C22_Witness ==
    /\ qr_result.called
    /\ qr_result.vendor_id = 65536 + 7
    /\ qr_result.product_id = 3 * 65536 + 1
    /\ qr_result.discriminator = 4096 + 5
    /\ qr_result.setup_pin = 134217728 + 9
    /\ qr_result.code = <<"M", "T", ":", "0", "0", "0", "0", "0", "0", "0", "0", "0", "0",
                          "5", "G", "N", "N", "E", "T", "T", "Y", "B", "2", "X", "2">>

(***************************************************************************)
(* QR payload and manual code, the passcode: C23                           *)
(***************************************************************************)
\* C23: for every configured setup PIN the passcode field of the QR
\* payload equals the 8 passcode digits of the manual pairing code of the
\* same identity.
C23_QrPasscodeIsManualPasscode ==
    (qr_result.called /\ manual_result.called /\ ~manual_result.raised
     /\ qr_result.setup_pin = manual_result.setup_pin) =>
        BitsValue(DecodedQr(qr_result.code), 57, 27) = PasscodePart(manual_result.code)

\* C24: every result of check_emergency_reset is consistent with the stored
\* start: 'none' comes with progress 0 and no start timestamp, 'active' with
\* a progress in 0..99 and a start timestamp, 'triggered' with progress 100;
\* and from one tick of an uninterrupted hold to the next the progress never
\* decreases.
C24_ResultConsistent ==
    /\ [](/\ reset_status \in {"none", "active", "triggered"}
          /\ reset_status = "none" =>
                reset_progress = 0 /\ emergency_reset_start = NONE
          /\ reset_status = "active" =>
                reset_progress \in 0..99 /\ emergency_reset_start # NONE
          /\ reset_status = "triggered" => reset_progress = 100)
    /\ [][(RunCheck /\ hold.last_all /\ hold'.last_all) =>
              reset_progress' >= reset_progress]_vars

\* A tick late in a hold reports more progress than the hold's first tick
\* did, and the hold is still armed.
C24_Witness ==
    /\ hold.last_all
    /\ ~hold.first
    /\ reset_status = "active"
    /\ reset_progress = 99
    /\ emergency_reset_start = hold.armed_at
    /\ hold.trace = <<"none", "active">>

\* C25: while check_emergency_reset reports 'active' the tick ends there:
\* the encoder counter is not drained, the flags are not copied or cleared
\* and the encoder button is not classified.  Flags latched and steps
\* counted up to the cancelling check are all still there at that check, and
\* the tick of that check returns them: the delta it reads holds every step
\* of the arming and the map it hands to the button dispatch is true for
\* every pin latched during the arming.
C25_ArmingKeepsInput ==
    /\ [](/\ (Running /\ reset_status = "active") => pc = "check"
          /\ arm.phase = "arming" =>
                /\ reset_status = "active"
                /\ enc_steps = arm.steps
                /\ \A p \in arm.edges : button_states[p]
          /\ arm.phase = "deliver" =>
                /\ reset_status = "none"
                /\ pc \in {"delta_read", "delta_reset", "enc_button", "buttons_copy",
                           "buttons_clear", "dispatch"}
                /\ pc = "delta_read" => enc_steps = arm.steps + arm.after
                /\ pc # "delta_read" => enc_delta = arm.steps + arm.after
                /\ pc \in {"delta_read", "delta_reset", "enc_button", "buttons_copy"} =>
                      \A p \in arm.edges : button_states[p]
                /\ pc \in {"buttons_clear", "dispatch"} =>
                      \A p \in arm.edges : states[p])
    /\ [][arm.phase = "arming" =>
              /\ enc_button_state' = enc_button_state
              /\ enc_last_state' = enc_last_state
              /\ states' = states
              /\ returned' = returned]_vars

\* A hold of both combo buttons was cancelled; the press edges of both and
\* two encoder steps of the arming are in the hands of the dispatch of the
\* first tick after it.
C25_Witness ==
    /\ arm.phase = "deliver"
    /\ pc = "dispatch"
    /\ arm.edges = EMERGENCY_RESET_BUTTONS
    /\ \A p \in EMERGENCY_RESET_BUTTONS : states[p] /\ edges.at_copy[p] >= 1
    /\ arm.steps = 2
    /\ enc_delta = 2
    /\ hold.trace = <<"none", "active", "none">>

\* C26: the object installed as current_screen, and every object on
\* screen_stack, is a screen (it has render and handle_input), whatever the
\* input was, and run() does not end because of the object it installed.
C26_OnlyScreensInstalled ==
    /\ IsScreen(current_screen)
    /\ \A i \in 1..Len(screen_stack) : IsScreen(screen_stack[i])
    /\ pc # "shutdown"

\* C29: a screen transition puts the screen it leaves on top of the stack;
\* a 'back' that follows it brings back exactly that screen and the stack as
\* it was before the transition; 'back' on an empty stack shows a MenuScreen
\* of the main menu and the stack stays empty.
C29_BackRestoresPrevious ==
    /\ nav_last.kind = "push" =>
          screen_stack = Append(nav_last.from_stack, nav_last.from_screen)
    /\ nav_last.kind = "back_after_push" =>
          /\ current_screen = nav_last.from_screen
          /\ screen_stack = nav_last.from_stack
    /\ nav_last.kind = "back_empty" =>
          /\ current_screen.class = "MenuScreen"
          /\ screen_stack = <<>>

\* From the commissioning screen the QR button opened a second one, and
\* 'back' returned to the first with the main menu still under it.
C29_Witness ==
    /\ nav_last.kind = "back_after_push"
    /\ current_screen.class = "MatterDevicesScreen"
    /\ Len(screen_stack) = 1
    /\ screen_stack[1].class = "MenuScreen"

\* C27: for one identity MatterServer and MatterButtonDevice return the same
\* QR payload and the same manual pairing code.
C27_SameStringsFromBoth ==
    /\ (qr_result.called /\ device.qr_called) => device.qr_code = qr_result.code
    /\ (manual_result.called /\ ~manual_result.raised /\ device.manual_called) =>
          device.manual_code = manual_result.code

\* C28: once stop() has returned the server is not running, no server
\* thread is alive and none gets started, whenever stop() was called; and
\* never more than one server thread is alive.
C28_StoppedStaysStopped ==
    /\ server.returned =>
          /\ ~server.running
          /\ server.threads = 0
    /\ server.threads <= 1

\* C30: as long as no assignment was made, get_button_function(pin) is the
\* default assignment of the pin, on the configuration of the first run and
\* on the one read back after save_config; and set_button_function with a
\* name that is not in BUTTON_FUNCTIONS returns False and changes neither
\* the assignments nor the stored configuration.
C30_DefaultAssignmentsRead ==
    /\ (bm_last.op = "get" /\ ~bm_last.assigned) =>
          bm_last.result = DEFAULT_BA[IntKey(bm_last.pin)]
    /\ (bm_last.op = "set" /\ bm_last.function = "bogus") =>
          /\ bm_last.result = "False"
          /\ config.ba = bm_last.before_ba
          /\ file = bm_last.before_file

====
